---- MODULE Spec2Model ----
(***************************************************************************)
(* Context extraction of the alt-text generator's web scraper              *)
(* (src/_core/web_scraper.py): WebScraper.find_context_elements and the    *)
(* helpers it calls, run on parsed HTML documents.                         *)
(*                                                                         *)
(* A string is a sequence of characters (one-character TLA+ strings), so   *)
(* that len(), str.replace, str.split and str.strip are computed on the    *)
(* characters.  A document is a sequence of nodes in document order; a     *)
(* node's position in the sequence is its identity (Python's id()).        *)
(***************************************************************************)
EXTENDS Integers, Sequences, FiniteSets, TLC

VARIABLES
    doc,                \* the parsed document (BeautifulSoup tree)
    img_element,        \* the argument of find_context_elements (0: None)
    config,             \* config["html_parsing"]
    pc,                 \* position in find_context_elements
    context_texts,      \* the list context_texts
    context_srcs,       \* history: for each entry of context_texts, the element it is
                        \* the text of (elem) and the root of the scan that found it (root)
    processed_elements, \* the set processed_elements (ids of scanned roots)
    scans,              \* history: the scans extract_context_from_element made, in order:
                        \* the root scanned (root) and the elements whose texts it returned (srcs)
    current,            \* _collect_upward_context: current
    depth,              \* _collect_upward_context: depth
    idx,                \* position of the for loop of the sibling / descendant phase
    result,             \* the list find_context_elements returned
    calls,              \* the number of earlier calls of find_context_elements that returned
    first_result,       \* history: the list the call before this one returned
    base_url,           \* extract_images: the argument base_url
    supported_extensions, \* config["images"]["supported_extensions"]
    images,             \* extract_images: the list images
    image_nodes,        \* history: for each entry of images, the img element it is of
    img_pos,            \* extract_images: position of the loop over img_tags
    images_pc,          \* position in extract_images
    _http_client,       \* http_client.py: the global _http_client (0: None)
    http_clients,       \* the number of HttpClient instances created so far
    session_closes,     \* for each instance, how often its session was closed
    atexit_callbacks,   \* the number of atexit registrations of close_http_client
    http_calls,         \* history: the calls made, in order: the function called (op)
                        \* and what get_http_client returned (ret; 0 for a close)
    http_pc,            \* the interpreter: running, exiting, exited
    parked,             \* the local variables of a second call of find_context_elements
                        \* that is not running at the moment
    alone,              \* history: what the calls returned when each ran alone
    worker_pc,          \* for each worker thread, its position in get_http_client
    items,              \* _process_parallel: the argument items
    progress_callback,  \* _process_parallel: whether a progress callback was given
    futures,            \* for each submitted item, its future: running, or what the
                        \* processor returned or raised
    yielded,            \* the futures as_completed has yielded so far
    results,            \* _process_parallel: the list results
    result_futures,     \* history: for each entry of results, the future it is of
    progress_calls,     \* history: the arguments of the calls of the progress callback
    batch_pc,           \* position in _process_parallel
    file,               \* process_websites_from_file: the file at file_path
    site_callback,      \* process_websites_from_file: whether a progress callback
                        \* was given
    urls,               \* process_websites_from_file: the list urls
    website_i,          \* process_websites_from_file: i of the loop over urls
    all_results,        \* process_websites_from_file: the list all_results
    website_log,        \* history: for each website visited, its url and what
                        \* scrape_page returned for it
    site_calls,         \* history: the arguments of the calls of the progress callback
    websites_pc,        \* position in process_websites_from_file
    session_images,     \* main.py: st.session_state.images
    processed_url,      \* main.py: st.session_state.processed_url
    app_url,            \* process_url: the argument url
    app_images,         \* process_url: the local list images
    app_pending,        \* process_url: the futures that are not done yet
    app_scraped,        \* history: the url and the list of the last return of
                        \* scrape_page in process_url
    app_outcome,        \* history: how each run of process_url ended, in order
    app_runs,           \* the number of runs of process_url begun so far
    app_pc              \* position in process_url

\* the state of extract_images
images_vars ==
    <<base_url, supported_extensions, images, image_nodes, img_pos, images_pc>>

\* the state of the module http_client
http_vars ==
    <<_http_client, http_clients, session_closes, atexit_callbacks, http_calls,
      http_pc>>

\* a second call of find_context_elements, on another thread
thread_vars == <<parked, alone>>

\* the worker threads that call get_http_client
worker_vars == <<worker_pc>>

\* the state of _process_parallel
batch_vars ==
    <<items, progress_callback, futures, yielded, results, result_futures,
      progress_calls, batch_pc>>

\* the state of process_websites_from_file
websites_vars ==
    <<file, site_callback, urls, website_i, all_results, website_log, site_calls,
      websites_pc>>

\* the state of the Streamlit app
session_vars ==
    <<session_images, processed_url, app_url, app_images, app_pending,
      app_scraped, app_outcome, app_runs, app_pc>>

\* the state of the callers of the scraper: the batch processor and the app
app_vars == <<worker_vars, batch_vars, websites_vars, session_vars>>

\* the state outside one call of find_context_elements
others == <<calls, first_result, images_vars, http_vars, thread_vars, app_vars>>

vars == <<doc, img_element, config, pc, context_texts, context_srcs,
          processed_elements, scans, current, depth, idx, result, others>>

----------------------------------------------------------------------------
(* Strings of the program and of the documents.                            *)

\* "Bild im Vollbildmodus anzeigen"
TR_Vollbild == <<"B", "i", "l", "d", " ", "i", "m", " ", "V", "o", "l", "l",
    "b", "i", "l", "d", "m", "o", "d", "u", "s", " ", "a", "n", "z", "e",
    "i", "g", "e", "n">>
\* "Mehr erfahren"
TR_MehrErfahren == <<"M", "e", "h", "r", " ", "e", "r", "f", "a", "h", "r",
    "e", "n">>
\* "Schliessen"
TR_Schliessen == <<"S", "c", "h", "l", "i", "e", "s", "s", "e", "n">>
\* "Auf dieser Seite"
TR_AufDieserSeite == <<"A", "u", "f", " ", "d", "i", "e", "s", "e", "r", " ",
    "S", "e", "i", "t", "e">>
\* "Sie sind hier:"
TR_SieSindHier == <<"S", "i", "e", " ", "s", "i", "n", "d", " ", "h", "i",
    "e", "r", ":">>
\* "Logo des Kantons Zürich"
TR_Logo == <<"L", "o", "g", "o", " ", "d", "e", "s", " ", "K", "a", "n", "t",
    "o", "n", "s", " ", "Z", "ü", "r", "i", "c", "h">>
\* "Vorheriges Bild"
TR_VorherigesBild == <<"V", "o", "r", "h", "e", "r", "i", "g", "e", "s", " ",
    "B", "i", "l", "d">>
\* "Nächstes Bild"
TR_NaechstesBild == <<"N", "ä", "c", "h", "s", "t", "e", "s", " ", "B", "i",
    "l", "d">>
\* "Ausgeblendete Navigationsebenen"
TR_Ausgeblendete == <<"A", "u", "s", "g", "e", "b", "l", "e", "n", "d", "e",
    "t", "e", " ", "N", "a", "v", "i", "g", "a", "t", "i", "o", "n", "s",
    "e", "b", "e", "n", "e", "n">>

\* "Quelle:"
QUELLE == <<"Q", "u", "e", "l", "l", "e", ":">>
\* "Alpine panorama photograph essay"
S_Alpine == <<"A", "l", "p", "i", "n", "e", " ", "p", "a", "n", "o", "r",
    "a", "m", "a", " ", "p", "h", "o", "t", "o", "g", "r", "a", "p", "h",
    " ", "e", "s", "s", "a", "y">>
\* "Taken near the summit trail."
S_Taken == <<"T", "a", "k", "e", "n", " ", "n", "e", "a", "r", " ", "t", "h",
    "e", " ", "s", "u", "m", "m", "i", "t", " ", "t", "r", "a", "i", "l", ".">>
\* "Alpine panorama photograph essay Taken near the summit trail."
S_AlpineTaken == <<"A", "l", "p", "i", "n", "e", " ", "p", "a", "n", "o",
    "r", "a", "m", "a", " ", "p", "h", "o", "t", "o", "g", "r", "a", "p",
    "h", " ", "e", "s", "s", "a", "y", " ", "T", "a", "k", "e", "n", " ",
    "n", "e", "a", "r", " ", "t", "h", "e", " ", "s", "u", "m", "m", "i",
    "t", " ", "t", "r", "a", "i", "l", ".">>
\* "Data shown. Quelle: Office"
S_DataQuelle == <<"D", "a", "t", "a", " ", "s", "h", "o", "w", "n", ".", " ",
    "Q", "u", "e", "l", "l", "e", ":", " ", "O", "f", "f", "i", "c", "e">>
\* " Data shown.\n  Quelle: Office ": a text node whose text is S_DataQuelle
S_DataQuelleRaw == <<" ", "D", "a", "t", "a", " ", "s", "h", "o", "w", "n",
    ".", "\n", " ", " ", "Q", "u", "e", "l", "l", "e", ":", " ", "O", "f",
    "f", "i", "c", "e", " ">>
\* "Data shown."
S_Data == <<"D", "a", "t", "a", " ", "s", "h", "o", "w", "n", ".">>
\* "Mehr Schliessenerfahren"
S_MehrSchliessen == <<"M", "e", "h", "r", " ", "S", "c", "h", "l", "i", "e",
    "s", "s", "e", "n", "e", "r", "f", "a", "h", "r", "e", "n">>
\* "Schliessen ab"
S_SchliessenAb == <<"S", "c", "h", "l", "i", "e", "s", "s", "e", "n", " ",
    "a", "b">>
\* "Zehn Chars"
S_ZehnChars == <<"Z", "e", "h", "n", " ", "C", "h", "a", "r", "s">>
\* "a.jpg"
S_AJpg == <<"a", ".", "j", "p", "g">>
\* "Data. Quelle: Office"
S_DataQuelle20 == <<"D", "a", "t", "a", ".", " ", "Q", "u", "e", "l", "l",
    "e", ":", " ", "O", "f", "f", "i", "c", "e">>
\* "b.jpg"
S_BJpg == <<"b", ".", "j", "p", "g">>
\* "icon.svg"
S_IconSvg == <<"i", "c", "o", "n", ".", "s", "v", "g">>
\* "B.PNG"
S_BPng == <<"B", ".", "P", "N", "G">>
\* "/img/c.png"
S_RootedPng == <<"/", "i", "m", "g", "/", "c", ".", "p", "n", "g">>
\* "https://cdn.org/d.jpg"
S_CdnJpg == <<"h", "t", "t", "p", "s", ":", "/", "/", "c", "d", "n", ".",
    "o", "r", "g", "/", "d", ".", "j", "p", "g">>
\* "lazy.png"
S_LazyPng == <<"l", "a", "z", "y", ".", "p", "n", "g">>
\* "z.png"
S_ZPng == <<"z", ".", "p", "n", "g">>
\* " Alt text "
S_Alt == <<" ", "A", "l", "t", " ", "t", "e", "x", "t", " ">>
\* "https://ex.org/dir/page.html"
S_PageUrl == <<"h", "t", "t", "p", "s", ":", "/", "/", "e", "x", ".", "o",
    "r", "g", "/", "d", "i", "r", "/", "p", "a", "g", "e", ".", "h", "t",
    "m", "l">>
\* "dir/page.html"
S_PagePath == <<"d", "i", "r", "/", "p", "a", "g", "e", ".", "h", "t", "m",
    "l">>
\* ".jpg"
EXT_jpg == <<".", "j", "p", "g">>
\* ".png"
EXT_png == <<".", "p", "n", "g">>
\* ".PNG"
EXT_PNG == <<".", "P", "N", "G">>
\* "http://"
S_HttpPrefix == <<"h", "t", "t", "p", ":", "/", "/">>
\* "https://"
S_HttpsPrefix == <<"h", "t", "t", "p", "s", ":", "/", "/">>

\* TEXTS_TO_REMOVE, in list order
TEXTS_TO_REMOVE == <<TR_Vollbild, TR_MehrErfahren, TR_Schliessen,
    TR_AufDieserSeite, TR_SieSindHier, TR_Logo, TR_VorherigesBild,
    TR_NaechstesBild, TR_Ausgeblendete>>

----------------------------------------------------------------------------
(* Python string operations.                                               *)

\* the characters str.strip() and the regex class \s take for whitespace
Whitespace == {" ", "\t", "\n"}

RECURSIVE LStrip(_)
LStrip(s) ==
    IF s = <<>> THEN s
    ELSE IF Head(s) \in Whitespace THEN LStrip(Tail(s)) ELSE s

RECURSIVE RStrip(_)
RStrip(s) ==
    IF s = <<>> THEN s
    ELSE IF s[Len(s)] \in Whitespace THEN RStrip(SubSeq(s, 1, Len(s) - 1)) ELSE s

\* str.strip()
Strip(s) == RStrip(LStrip(s))

\* s.startswith(p)
StartsWith(s, p) == Len(p) <= Len(s) /\ SubSeq(s, 1, Len(p)) = p

\* s.find(p) + 1: the position of the first occurrence of p in s, 0 if none
Find(s, p) ==
    LET hits == {i \in 1..(Len(s) - Len(p) + 1) : SubSeq(s, i, i + Len(p) - 1) = p}
    IN  IF hits = {} THEN 0 ELSE CHOOSE i \in hits : \A j \in hits : i <= j

\* p in s
Contains(s, p) == Find(s, p) # 0

\* s.replace(old, ""): the occurrences found scanning left to right, one pass
RECURSIVE Replace(_, _)
Replace(s, old) ==
    IF Len(s) < Len(old) THEN s
    ELSE IF StartsWith(s, old) THEN Replace(SubSeq(s, Len(old) + 1, Len(s)), old)
    ELSE <<Head(s)>> \o Replace(Tail(s), old)

\* s.split(sep)[0]
SplitFirst(s, sep) ==
    IF Find(s, sep) = 0 THEN s ELSE SubSeq(s, 1, Find(s, sep) - 1)

\* re.sub(r"\s+", " ", s): every run of whitespace becomes one space
CollapseWhitespace(s) ==
    LET kept == SelectSeq([i \in 1..Len(s) |-> i],
                          LAMBDA i : \/ s[i] \notin Whitespace
                                     \/ i = 1
                                     \/ s[i - 1] \notin Whitespace)
    IN  [k \in 1..Len(kept) |->
            IF s[kept[k]] \in Whitespace THEN " " ELSE s[kept[k]]]

\* sep.join(strs)
RECURSIVE Join(_, _)
Join(strs, sep) ==
    IF strs = <<>> THEN <<>>
    ELSE IF Len(strs) = 1 THEN strs[1]
    ELSE strs[1] \o sep \o Join(Tail(strs), sep)

\* xs[:k]
Truncate(xs, k) == SubSeq(xs, 1, IF k < Len(xs) THEN k ELSE Len(xs))

----------------------------------------------------------------------------
(* The document tree (bs4).                                                *)

NoNode == 0          \* None
TextNode == "#text"  \* a NavigableString

\* An attribute that is absent, and one that is the empty string, are both <<>>:
\* the code reads attributes with `get(..) or ..`, which cannot tell them apart.
ImgWith(parent, src, data_src, alt) ==
    [tag |-> "img", parent |-> parent, text |-> <<>>, src |-> src,
     data_src |-> data_src, alt |-> alt]
Element(tag, parent) ==
    [tag |-> tag, parent |-> parent, text |-> <<>>, src |-> <<>>,
     data_src |-> <<>>, alt |-> <<>>]
Text(parent, s) ==
    [tag |-> TextNode, parent |-> parent, text |-> s, src |-> <<>>,
     data_src |-> <<>>, alt |-> <<>>]
Img(parent, src) == ImgWith(parent, src, <<>>, <<>>)

Ids(d) == [i \in 1..Len(d) |-> i]

\* element.parent
Parent(d, n) == d[n].parent

\* hasattr(node, "find_all"): a Tag, not a NavigableString
IsTag(d, n) == d[n].tag # TextNode

\* whether n is m or an ancestor of m
RECURSIVE IsAncestorOrSelf(_, _, _)
IsAncestorOrSelf(d, n, m) ==
    IF m = NoNode THEN FALSE
    ELSE IF m = n THEN TRUE
    ELSE IsAncestorOrSelf(d, n, Parent(d, m))

IsDescendant(d, m, n) == m # n /\ IsAncestorOrSelf(d, n, m)

\* element.children: the child nodes in document order
Children(d, n) == SelectSeq(Ids(d), LAMBDA m : Parent(d, m) = n)

\* find_all returning the matches in reverse document order
RECURSIVE Reverse(_)
Reverse(xs) == IF xs = <<>> THEN <<>> ELSE Append(Reverse(Tail(xs)), Head(xs))

find_all_reversed(d, n, names) ==
    Reverse(SelectSeq(Ids(d), LAMBDA m : IsDescendant(d, m, n) /\ d[m].tag \in names))

\* element.find_all(names): the descendant tags so named, in document order
find_all(d, n, names) ==
    SelectSeq(Ids(d), LAMBDA m : IsDescendant(d, m, n) /\ d[m].tag \in names)

\* element.find_all() with recursive left True: all the tags below
find_all_below(d, n) == SelectSeq(Ids(d), LAMBDA m : IsDescendant(d, m, n) /\ IsTag(d, m))

\* element.find_all(recursive=False): the child tags
find_all_children(d, n) == SelectSeq(Children(d, n), LAMBDA m : IsTag(d, m))

\* get_text with the separator forgotten
get_text_unseparated(d, n) ==
    LET strs == SelectSeq(Ids(d), LAMBDA m : IsAncestorOrSelf(d, n, m) /\ ~IsTag(d, m))
        stripped == [i \in 1..Len(strs) |-> Strip(d[strs[i]].text)]
    IN  Join(SelectSeq(stripped, LAMBDA s : s # <<>>), <<>>)

\* element.get_text(separator=" ", strip=True): the strings of the subtree,
\* each stripped, the empty ones left out, joined by the separator
get_text(d, n) ==
    LET strs == SelectSeq(Ids(d), LAMBDA m : IsAncestorOrSelf(d, n, m) /\ ~IsTag(d, m))
        stripped == [i \in 1..Len(strs) |-> Strip(d[strs[i]].text)]
    IN  Join(SelectSeq(stripped, LAMBDA s : s # <<>>), <<" ">>)

\* Tag.__eq__: same name, same attributes, equal contents
RECURSIVE TagEq(_, _, _)
TagEq(d, a, b) ==
    \/ a = b
    \/ /\ d[a].tag = d[b].tag
       /\ d[a].src = d[b].src
       /\ d[a].data_src = d[b].data_src
       /\ d[a].alt = d[b].alt
       /\ d[a].text = d[b].text
       /\ Len(Children(d, a)) = Len(Children(d, b))
       /\ \A i \in 1..Len(Children(d, a)) :
              TagEq(d, Children(d, a)[i], Children(d, b)[i])

----------------------------------------------------------------------------
(* WebScraper: the context extraction.                                     *)

\* extract_text_content
extract_text_content(d, element) ==
    IF element = NoNode THEN <<>>
    ELSE Strip(CollapseWhitespace(get_text(d, element)))

Headings == {"h1", "h2", "h3", "h4", "h5", "h6"}
Captions == {"figcaption", "caption"}
TextContent == {"p", "div", "span"}

\* selectors with the text content scanned first
selectors_text_first == <<TextContent, Headings, Captions>>

\* extract_context_from_element: selectors, in priority order
selectors == <<Headings, Captions, TextContent>>

\* the length test with >= for >
KeepsTextAtLeast(text, min_length) == text # <<>> /\ Len(text) >= min_length

\* extract_context_from_element: "if text and len(text) > min_length"
KeepsText(text, min_length) == text # <<>> /\ Len(text) > min_length

\* extract_context_from_element: the elements one selector group appends
GroupSources(d, element, selector_group, min_length) ==
    SelectSeq(find_all(d, element, selector_group),
              LAMBDA elem : KeepsText(extract_text_content(d, elem), min_length))

\* the guard without its test of the visited set
ScanSkippedForNone(element, processed) == element = NoNode

\* extract_context_from_element: "if not element or id(element) in processed_elements"
ScanSkipped(element, processed) == element = NoNode \/ element \in processed

\* extract_context_from_element: the elements whose text it returns, in order
RECURSIVE ScanGroups(_, _, _, _)
ScanGroups(d, element, groups, min_length) ==
    IF groups = <<>> THEN <<>>
    ELSE GroupSources(d, element, Head(groups), min_length)
         \o ScanGroups(d, element, Tail(groups), min_length)

ScanSources(d, element, processed, min_length) ==
    IF ScanSkipped(element, processed) THEN <<>>
    ELSE ScanGroups(d, element, selectors, min_length)

\* the texts of a list of elements
TextsOf(d, srcs) == [i \in 1..Len(srcs) |-> extract_text_content(d, srcs[i])]

\* extract_context_from_element: the list it returns
extract_context_from_element(d, element, processed, min_length) ==
    TextsOf(d, ScanSources(d, element, processed, min_length))

\* processed_elements.add(id(element)) forgotten
ProcessedNever(element, processed) == processed

\* extract_context_from_element: processed_elements after the call
ProcessedAfter(element, processed) ==
    IF ScanSkipped(element, processed) THEN processed ELSE processed \cup {element}

\* _clean_context_texts: "for tag in TEXTS_TO_REMOVE: text = text.replace(tag, '')"
RECURSIVE RemoveTexts(_, _)
RemoveTexts(text, tags) ==
    IF tags = <<>> THEN text
    ELSE RemoveTexts(Replace(text, Head(tags)), Tail(tags))

\* the attribution left in place
CutAttributionNever(text) == Strip(text)

\* _clean_context_texts: text.split("Quelle:")[0].strip()
CutAttribution(text) == Strip(SplitFirst(text, QUELLE))

\* _clean_context_texts: one text of the first loop
CleanText(text) == CutAttribution(RemoveTexts(text, TEXTS_TO_REMOVE))

\* cleaned_texts without the test "if text"
CleanedTextsWithEmpty(texts) == [i \in 1..Len(texts) |-> CleanText(texts[i])]

\* cleaned_texts with the length test applied to the cleaned text as well
CleanedTextsAboveMinimum(texts) ==
    SelectSeq([i \in 1..Len(texts) |-> CleanText(texts[i])],
              LAMBDA t : Len(t) > config.minimal_text_length)

\* _clean_context_texts: cleaned_texts
CleanedTexts(texts) ==
    SelectSeq([i \in 1..Len(texts) |-> CleanText(texts[i])], LAMBDA t : t # <<>>)

\* the list returned with its duplicates
DeduplicateNever(texts, seen) == texts

\* _clean_context_texts: the list comprehension over the set seen
RECURSIVE Deduplicate(_, _)
Deduplicate(texts, seen) ==
    IF texts = <<>> THEN <<>>
    ELSE IF Head(texts) \in seen THEN Deduplicate(Tail(texts), seen)
    ELSE <<Head(texts)>> \o Deduplicate(Tail(texts), seen \cup {Head(texts)})

\* _clean_context_texts
_clean_context_texts(texts) == Deduplicate(CleanedTexts(texts), {})

\* the slice forgotten
Uncapped(texts, max_elements) == texts

\* find_context_elements: context_texts[:max_elements]
Capped(texts, max_elements) == Truncate(texts, max_elements)

----------------------------------------------------------------------------
(* The documents and configurations the calls are made with.               *)

MaxSearchDepth == 2       \* context_search_depth ranges over 0..MaxSearchDepth
MaxContextElements == 3   \* max_context_elements ranges over 0..MaxContextElements
MinimalTextLengths == {3, 10}

Configs ==
    [context_search_depth : 0..MaxSearchDepth,
     max_context_elements : 0..MaxContextElements,
     minimal_text_length : MinimalTextLengths]

\* the strings of the documents' text nodes
TextPool == {S_Data, S_DataQuelleRaw, S_MehrSchliessen, S_SchliessenAb,
             S_ZehnChars, TR_MehrErfahren}

\* <div><h1>a</h1><img src="a.jpg"><p>b</p>c</div>
DocA(a, b, c) ==
    <<Element("[document]", 0), Element("div", 1), Element("h1", 2), Text(3, a),
      Img(2, S_AJpg), Element("p", 2), Text(6, b), Text(2, c)>>

\* <h1>a</h1><figcaption>b</figcaption><div><p>c</p><img src="a.jpg"></div>
DocB(a, b, c) ==
    <<Element("[document]", 0), Element("h1", 1), Text(2, a),
      Element("figcaption", 1), Text(4, b), Element("div", 1),
      Element("p", 6), Text(7, c), Img(6, S_AJpg)>>

\* <div><div><p>a</p><h2>b</h2></div><img src="a.jpg">
\*      <span><span>c</span></span><img src="a.jpg"></div>
DocC(a, b, c) ==
    <<Element("[document]", 0), Element("div", 1), Element("div", 2),
      Element("p", 3), Text(4, a), Element("h2", 3), Text(6, b),
      Img(2, S_AJpg), Element("span", 2), Element("span", 9), Text(10, c),
      Img(2, S_AJpg)>>

\* an img tag outside any tree: its parent is None
DocDetached == <<Img(0, S_AJpg)>>

\* BeautifulSoup('<div><h1>Alpine panorama photograph essay</h1><img src="a.jpg">
\*                <p>Taken near the summit trail.</p></div>', "lxml")
DocExample ==
    <<Element("[document]", 0), Element("html", 1), Element("body", 2),
      Element("div", 3), Element("h1", 4), Text(5, S_Alpine), Img(4, S_AJpg),
      Element("p", 4), Text(8, S_Taken)>>

ConfigExample ==
    [context_search_depth |-> 2, max_context_elements |-> 5, minimal_text_length |-> 10]

Docs ==
    {DocA(t[1], t[2], t[3]) : t \in TextPool \X TextPool \X TextPool}
    \cup {DocB(t[1], t[2], t[3]) : t \in TextPool \X TextPool \X TextPool}
    \cup {DocC(t[1], t[2], t[3]) : t \in TextPool \X TextPool \X TextPool}
    \cup {DocDetached}

Images(d) == {n \in 1..Len(d) : d[n].tag = "img"}

----------------------------------------------------------------------------
(* find_context_elements as a state machine.                               *)

\* extract_images is not running
ImagesIdle ==
    /\ base_url = <<>>
    /\ supported_extensions = <<>>
    /\ images = <<>>
    /\ image_nodes = <<>>
    /\ img_pos = 0
    /\ images_pc = "idle"

\* the module http_client is imported and not used
HttpIdle ==
    /\ _http_client = 0
    /\ http_clients = 0
    /\ session_closes = <<>>
    /\ atexit_callbacks = 0
    /\ http_calls = <<>>
    /\ http_pc = "idle"

\* the local variables of a call that has not begun
NoCall ==
    [img_element |-> 0, pc |-> "idle", context_texts |-> <<>>, context_srcs |-> <<>>,
     processed_elements |-> {}, scans |-> <<>>, current |-> 0, depth |-> 0,
     idx |-> 0, result |-> <<>>]

\* there is no second call
SingleThreaded ==
    /\ parked = NoCall
    /\ alone = <<>>

\* no worker thread has called get_http_client
WorkersIdle == worker_pc = <<>>

\* _process_parallel is not running
BatchIdle ==
    /\ items = <<>>
    /\ progress_callback = FALSE
    /\ futures = <<>>
    /\ yielded = {}
    /\ results = <<>>
    /\ result_futures = <<>>
    /\ progress_calls = <<>>
    /\ batch_pc = "idle"

\* process_websites_from_file is not running
WebsitesIdle ==
    /\ file = <<>>
    /\ site_callback = FALSE
    /\ urls = <<>>
    /\ website_i = 0
    /\ all_results = <<>>
    /\ website_log = <<>>
    /\ site_calls = <<>>
    /\ websites_pc = "idle"

\* main.py has initialised the session state, and process_url has not run
SessionIdle ==
    /\ session_images = <<>>
    /\ processed_url = <<>>
    /\ app_url = <<>>
    /\ app_images = <<>>
    /\ app_pending = {}
    /\ app_scraped = [url |-> <<>>, images |-> <<>>]
    /\ app_outcome = <<>>
    /\ app_runs = 0
    /\ app_pc = "idle"

\* the batch processor and the app are not running
AppIdle ==
    /\ WorkersIdle
    /\ BatchIdle
    /\ WebsitesIdle
    /\ SessionIdle

\* <div><h1>Data. Quelle: Office</h1><img src="a.jpg"><p>Schliessen ab</p>
\* Data shown.</div>: both texts are shorter after cleaning
DocShortened == DocA(S_DataQuelle20, S_SchliessenAb, S_Data)

Init ==
    /\ \/ doc \in Docs /\ config \in Configs
       \/ doc = DocExample /\ config = ConfigExample
       \/ doc = DocShortened /\ config \in Configs
    /\ img_element \in Images(doc) \cup {NoNode}
    /\ pc = "call"
    /\ context_texts = <<>>
    /\ context_srcs = <<>>
    /\ processed_elements = {}
    /\ scans = <<>>
    /\ current = NoNode
    /\ depth = 0
    /\ idx = 0
    /\ result = <<>>
    /\ calls = 0
    /\ first_result = <<>>
    /\ ImagesIdle
    /\ HttpIdle
    /\ SingleThreaded
    /\ AppIdle

max_elements == config.max_context_elements
min_length == config.minimal_text_length

Sourced(srcs, element) == [i \in 1..Len(srcs) |-> [elem |-> srcs[i], root |-> element]]

\* the call of extract_context_from_element(element, processed_elements) and
\* context_texts.extend(...) of what it returns
ScanAndExtend(element) ==
    LET srcs == ScanSources(doc, element, processed_elements, min_length)
    IN  /\ context_texts' = context_texts \o TextsOf(doc, srcs)
        /\ context_srcs' = context_srcs \o Sourced(srcs, element)
        /\ processed_elements' = ProcessedAfter(element, processed_elements)
        /\ scans' = IF ScanSkipped(element, processed_elements)
                    THEN scans ELSE Append(scans, [root |-> element, srcs |-> srcs])

\* the visited set of an earlier call kept for the next one
processed_elements_kept == processed_elements

\* find_context_elements: "processed_elements = set()"
processed_elements_new == {}

\* find_context_elements is entered (context_texts = [], processed_elements =
\* set()) and calls _collect_upward_context, whose first statement reads
\* img_element.parent: an AttributeError on None
FindContextElements ==
    /\ pc = "call"
    /\ context_texts' = <<>>
    /\ context_srcs' = <<>>
    /\ processed_elements' = processed_elements_new
    /\ scans' = <<>>
    /\ IF img_element = NoNode
       THEN /\ pc' = "raised"
            /\ UNCHANGED <<current, depth>>
       ELSE /\ pc' = "upward"
            /\ current' = Parent(doc, img_element)
            /\ depth' = 0
    /\ UNCHANGED <<doc, img_element, config, idx, result>>
    /\ UNCHANGED others

\* the while loop going one ancestor further than context_search_depth
UpwardContinuesOneMore ==
    /\ current # NoNode
    /\ depth <= config.context_search_depth
    /\ Len(context_texts) < max_elements

\* _collect_upward_context: the condition of the while loop
UpwardContinues ==
    /\ current # NoNode
    /\ depth < config.context_search_depth
    /\ Len(context_texts) < max_elements

\* _collect_upward_context: one iteration of the while loop
CollectUpwardStep ==
    /\ pc = "upward"
    /\ UpwardContinues
    /\ ScanAndExtend(current)
    /\ current' = Parent(doc, current)
    /\ depth' = depth + 1
    /\ UNCHANGED <<doc, img_element, config, pc, idx, result>>
    /\ UNCHANGED others

\* _collect_upward_context returns
CollectUpwardReturn ==
    /\ pc = "upward"
    /\ ~UpwardContinues
    /\ pc' = "sibling_call"
    /\ UNCHANGED <<doc, img_element, config, context_texts, context_srcs,
                   processed_elements, scans, current, depth, idx, result>>
    /\ UNCHANGED others

\* "if not img_element.parent or len(context_texts) >= max_elements: return"
PhaseSkipped ==
    Parent(doc, img_element) = NoNode \/ Len(context_texts) >= max_elements

\* _collect_sibling_context is called
CollectSiblingCall ==
    /\ pc = "sibling_call"
    /\ IF PhaseSkipped
       THEN pc' = "descendant_call" /\ idx' = idx
       ELSE pc' = "sibling" /\ idx' = 1
    /\ UNCHANGED <<doc, img_element, config, context_texts, context_srcs,
                   processed_elements, scans, current, depth, result>>
    /\ UNCHANGED others

\* the condition of "continue" passing over the span elements too
SiblingSkippedOrSpan(sibling) ==
    \/ Len(context_texts) >= max_elements
    \/ TagEq(doc, sibling, img_element)
    \/ ~IsTag(doc, sibling)
    \/ doc[sibling].tag = "span"

\* the condition of "continue" without its test of the cap
SiblingSkippedUncapped(sibling) ==
    \/ TagEq(doc, sibling, img_element)
    \/ ~IsTag(doc, sibling)

\* _collect_sibling_context: the condition of "continue"
SiblingSkipped(sibling) ==
    \/ Len(context_texts) >= max_elements
    \/ TagEq(doc, sibling, img_element)
    \/ ~IsTag(doc, sibling)

\* _collect_sibling_context: one iteration of the for loop
CollectSiblingStep ==
    /\ pc = "sibling"
    /\ idx <= Len(Children(doc, Parent(doc, img_element)))
    /\ LET sibling == Children(doc, Parent(doc, img_element))[idx]
       IN  IF SiblingSkipped(sibling)
           THEN UNCHANGED <<context_texts, context_srcs, processed_elements,
                            scans>>
           ELSE ScanAndExtend(sibling)
    /\ idx' = idx + 1
    /\ UNCHANGED <<doc, img_element, config, pc, current, depth, result>>
    /\ UNCHANGED others

\* _collect_sibling_context returns at the end of the loop
CollectSiblingReturn ==
    /\ pc = "sibling"
    /\ idx > Len(Children(doc, Parent(doc, img_element)))
    /\ pc' = "descendant_call"
    /\ UNCHANGED <<doc, img_element, config, context_texts, context_srcs,
                   processed_elements, scans, current, depth, idx, result>>
    /\ UNCHANGED others

\* _collect_descendant_context is called
CollectDescendantCall ==
    /\ pc = "descendant_call"
    /\ IF PhaseSkipped
       THEN pc' = "clean" /\ idx' = idx
       ELSE pc' = "descendant" /\ idx' = 1
    /\ UNCHANGED <<doc, img_element, config, context_texts, context_srcs,
                   processed_elements, scans, current, depth, result>>
    /\ UNCHANGED others

\* _collect_descendant_context: one iteration of the for loop
CollectDescendantStep ==
    /\ pc = "descendant"
    /\ idx <= Len(find_all_children(doc, Parent(doc, img_element)))
    /\ LET child == find_all_children(doc, Parent(doc, img_element))[idx]
           srcs == ScanSources(doc, child, processed_elements, min_length)
       IN  IF Len(context_texts) >= max_elements
           THEN /\ pc' = "clean"
                /\ UNCHANGED <<context_texts, context_srcs, processed_elements,
                               scans, idx>>
           ELSE /\ pc' = pc
                /\ idx' = idx + 1
                /\ IF child \notin processed_elements
                   THEN /\ processed_elements' = ProcessedAfter(child, processed_elements)
                        /\ scans' = Append(scans, [root |-> child, srcs |-> srcs])
                        /\ IF srcs # <<>>
                           THEN /\ context_texts' = Append(context_texts,
                                        extract_text_content(doc, srcs[1]))
                                /\ context_srcs' = Append(context_srcs,
                                        [elem |-> srcs[1], root |-> child])
                           ELSE UNCHANGED <<context_texts, context_srcs>>
                   ELSE UNCHANGED <<context_texts, context_srcs,
                                    processed_elements, scans>>
    /\ UNCHANGED <<doc, img_element, config, current, depth, result>>
    /\ UNCHANGED others

\* _collect_descendant_context returns at the end of the loop
CollectDescendantReturn ==
    /\ pc = "descendant"
    /\ idx > Len(find_all_children(doc, Parent(doc, img_element)))
    /\ pc' = "clean"
    /\ UNCHANGED <<doc, img_element, config, context_texts, context_srcs,
                   processed_elements, scans, current, depth, idx, result>>
    /\ UNCHANGED others

\* the slice taken of the cleaned, deduplicated list
CappedAfterCleaning(texts, k) == Capped(_clean_context_texts(texts), k)

\* "self._clean_context_texts(context_texts[:max_elements])"
CleanedAfterCapping(texts, k) == _clean_context_texts(Capped(texts, k))

\* "return self._clean_context_texts(context_texts[:max_elements])"
CleanAndReturn ==
    /\ pc = "clean"
    /\ result' = CleanedAfterCapping(context_texts, max_elements)
    /\ pc' = "done"
    /\ UNCHANGED <<doc, img_element, config, context_texts, context_srcs,
                   processed_elements, scans, current, depth, idx>>
    /\ UNCHANGED others

Next ==
    \/ FindContextElements
    \/ CollectUpwardStep
    \/ CollectUpwardReturn
    \/ CollectSiblingCall
    \/ CollectSiblingStep
    \/ CollectSiblingReturn
    \/ CollectDescendantCall
    \/ CollectDescendantStep
    \/ CollectDescendantReturn
    \/ CleanAndReturn

Spec == Init /\ [][Next]_vars

----------------------------------------------------------------------------
(* find_context_elements called again on the same image of the unchanged   *)
(* document.                                                               *)

MaxRepeats == 1   \* the call is repeated up to MaxRepeats times

\* the texts of the documents of the repeated and the concurrent calls
SmallTextPool == {S_Data, S_DataQuelleRaw, S_MehrSchliessen}

SmallDocs ==
    {DocA(t[1], t[2], t[3]) : t \in SmallTextPool \X SmallTextPool \X SmallTextPool}
    \cup {DocB(t[1], t[2], t[3]) : t \in SmallTextPool \X SmallTextPool \X SmallTextPool}
    \cup {DocC(t[1], t[2], t[3]) : t \in SmallTextPool \X SmallTextPool \X SmallTextPool}
    \cup {DocDetached, DocExample}

InitRepeated == Init /\ doc \in SmallDocs

\* the caller calls find_context_elements(img_element) once more
CallAgain ==
    /\ pc = "done"
    /\ calls < MaxRepeats
    /\ calls' = calls + 1
    /\ first_result' = result
    /\ pc' = "call"
    /\ UNCHANGED <<doc, img_element, config, context_texts, context_srcs,
                   processed_elements, scans, current, depth, idx, result>>
    /\ UNCHANGED <<images_vars, http_vars, thread_vars, app_vars>>

NextRepeated ==
    \/ FindContextElements
    \/ CollectUpwardStep
    \/ CollectUpwardReturn
    \/ CollectSiblingCall
    \/ CollectSiblingStep
    \/ CollectSiblingReturn
    \/ CollectDescendantCall
    \/ CollectDescendantStep
    \/ CollectDescendantReturn
    \/ CleanAndReturn
    \/ CallAgain

SpecRepeated == InitRepeated /\ [][NextRepeated]_vars

----------------------------------------------------------------------------
(* Properties of find_context_elements.                                    *)

Range(xs) == {xs[i] : i \in 1..Len(xs)}

\* the fragments the slice context_texts[:max_elements] keeps
CappedTexts == Capped(context_texts, max_elements)

\* the tag of the element the j-th collected fragment is the text of
TagOf(j) == doc[context_srcs[j].elem].tag

\* whether a text holds one of TEXTS_TO_REMOVE
HasTextToRemove(text) ==
    \E k \in 1..Len(TEXTS_TO_REMOVE) : Contains(text, TEXTS_TO_REMOVE[k])

\* the elements the priority scans of this call looked at
ScannedElements ==
    {m \in 1..Len(doc) :
        /\ doc[m].tag \in Headings \cup Captions \cup TextContent
        /\ \E k \in 1..Len(scans) : IsDescendant(doc, m, scans[k].root)}

\* the call of the end-to-end scenario: the img of the example document
ExampleCall == doc = DocExample /\ config = ConfigExample /\ img_element = 7

\* C1, as claimed: for <div><h1>Alpine panorama photograph essay</h1>
\* <img src="a.jpg"><p>Taken near the summit trail.</p></div> with
\* min_fragment_length 10, max_fragments 5 and search_depth 2 the call returns
\* exactly ["Alpine panorama photograph essay", "Taken near the summit trail."].
C1_AsClaimed ==
    (ExampleCall /\ pc = "done") => result = <<S_Alpine, S_Taken>>

\* C1, amended: the call returns the two claimed fragments in the claimed
\* order followed by a third, the text of the enclosing div, which the scan of
\* the second ancestor collects.
C1_ExampleResult ==
    (ExampleCall /\ pc = "done") => result = <<S_Alpine, S_Taken, S_AlpineTaken>>

C1_Witness ==
    /\ ExampleCall
    /\ pc = "done"
    /\ Len(scans) = 2
    /\ Len(result) = 3

\* C2: the returned list has at most max_fragments elements, and none when
\* max_fragments is 0.
C2_CapEnforced ==
    /\ Len(result) <= max_elements
    /\ max_elements = 0 => result = <<>>

C2_Witness ==
    /\ pc = "done"
    /\ Len(context_texts) > max_elements
    /\ max_elements > 0
    /\ Len(result) = max_elements

\* C3, as claimed: no returned string has length <= min_fragment_length, and
\* the text of a scanned heading/caption/p/div/span element of length
\* min_fragment_length + 1 that holds no noise phrase is returned.
C3_AsClaimed ==
    pc = "done" =>
        /\ \A i \in 1..Len(result) : Len(result[i]) > min_length
        /\ \A m \in ScannedElements :
               LET text == extract_text_content(doc, m)
               IN  (Len(text) = min_length + 1 /\ ~HasTextToRemove(text))
                       => text \in Range(result)

\* C3, amended: the length test is on the raw text.  Every collected fragment
\* is the raw text of its element and is longer than min_fragment_length;
\* every returned string is the normalization of one of the first
\* max_fragments collected fragments (and may itself be shorter); and a
\* collected fragment of length min_fragment_length + 1 that holds no noise
\* phrase and no attribution marker is returned when it is among the first
\* max_fragments collected.
C3_RawLengthFilter ==
    /\ \A j \in 1..Len(context_texts) :
           /\ context_texts[j] = extract_text_content(doc, context_srcs[j].elem)
           /\ Len(context_texts[j]) > min_length
    /\ pc = "done" =>
           /\ \A i \in 1..Len(result) :
                  \E j \in 1..Len(CappedTexts) : result[i] = CleanText(CappedTexts[j])
           /\ \A j \in 1..Len(CappedTexts) :
                  ( /\ Len(CappedTexts[j]) = min_length + 1
                    /\ ~HasTextToRemove(CappedTexts[j])
                    /\ ~Contains(CappedTexts[j], QUELLE) )
                      => CappedTexts[j] \in Range(result)

C3_Witness ==
    /\ pc = "done"
    /\ \E i \in 1..Len(result) : Len(result[i]) <= min_length
    /\ \E j \in 1..Len(CappedTexts) :
           /\ Len(CappedTexts[j]) = min_length + 1
           /\ ~HasTextToRemove(CappedTexts[j])
           /\ ~Contains(CappedTexts[j], QUELLE)
    /\ \E m \in ScannedElements :
           /\ extract_text_content(doc, m) # <<>>
           /\ Len(extract_text_content(doc, m)) <= min_length

\* the position of the first occurrence of x in xs
FirstPos(xs, x) == CHOOSE i \in 1..Len(xs) : xs[i] = x /\ \A j \in 1..(i - 1) : xs[j] # x

\* C4: the returned list holds no two equal strings; a text that several
\* nodes yield occurs once, at the position of its first occurrence, and the
\* order of the fragments is that of their first occurrences.
C4_Deduplicated ==
    pc = "done" =>
        LET cleaned == CleanedTexts(CappedTexts)
        IN  /\ \A i, j \in 1..Len(result) : i < j => result[i] # result[j]
            /\ Range(result) = Range(cleaned)
            /\ \A i, j \in 1..Len(result) :
                   i < j => FirstPos(cleaned, result[i]) < FirstPos(cleaned, result[j])

C4_Witness ==
    /\ pc = "done"
    /\ Len(result) >= 2
    /\ \E i, j \in 1..Len(CappedTexts) :
           /\ i < j
           /\ context_srcs[i].elem # context_srcs[j].elem
           /\ context_texts[i] # context_texts[j]
           /\ CleanText(context_texts[i]) = CleanText(context_texts[j])
           /\ CleanText(context_texts[i]) # <<>>
           /\ \E l \in 1..Len(CappedTexts) :
                  /\ i < l /\ l < j
                  /\ CleanText(context_texts[l]) # <<>>
                  /\ CleanText(context_texts[l]) # CleanText(context_texts[i])

\* C5: no returned fragment holds an occurrence of an entry of
\* TEXTS_TO_REMOVE.
C5_NoTextToRemove ==
    pc = "done" => \A i \in 1..Len(result) : ~HasTextToRemove(result[i])

\* the text before the first attribution marker of a text that holds one
BeforeAttribution(text) == SubSeq(text, 1, Find(text, QUELLE) - 1)

\* C6: a fragment holding "Quelle:" is cut at the first occurrence of the
\* marker: no returned fragment holds the marker, nothing that follows the
\* marker has a part in what is returned, and a fragment without noise
\* phrases is returned as the trimmed text before the marker ("Data shown.
\* Quelle: Office" as "Data shown.").
C6_AttributionCut ==
    pc = "done" =>
        /\ \A i \in 1..Len(result) : ~Contains(result[i], QUELLE)
        /\ \A j \in 1..Len(CappedTexts) :
               Contains(CappedTexts[j], QUELLE) =>
                   /\ CleanText(CappedTexts[j]) = CleanText(BeforeAttribution(CappedTexts[j]))
                   /\ ~HasTextToRemove(CappedTexts[j]) =>
                          /\ CleanText(CappedTexts[j]) = Strip(BeforeAttribution(CappedTexts[j]))
                          /\ CleanText(CappedTexts[j]) # <<>> =>
                                 Strip(BeforeAttribution(CappedTexts[j])) \in Range(result)
                   /\ CappedTexts[j] = S_DataQuelle => S_Data \in Range(result)

C6_Witness ==
    /\ pc = "done"
    /\ \E j \in 1..Len(CappedTexts) : CappedTexts[j] = S_DataQuelle
    /\ S_Data \in Range(result)
    /\ \A j \in 1..Len(CappedTexts) : CappedTexts[j] # S_Data

\* a collected fragment that the slice keeps and the result holds
Kept(j) ==
    /\ j \in 1..Len(CappedTexts)
    /\ CleanText(context_texts[j]) \in Range(result)

\* a collected fragment that the slice drops and whose text the result lacks
Dropped(j) ==
    /\ j \in (Len(CappedTexts) + 1)..Len(context_texts)
    /\ CleanText(context_texts[j]) # <<>>
    /\ CleanText(context_texts[j]) \notin Range(result)

\* C7, as claimed: in no call is a p/div/span fragment kept in the result
\* while a heading or caption fragment collected in the same call is dropped
\* by the truncation to max_fragments.
C7_AsClaimed ==
    pc = "done" =>
        ~ \E j, l \in 1..Len(context_texts) :
              /\ Kept(j) /\ TagOf(j) \in TextContent
              /\ Dropped(l) /\ TagOf(l) \in Headings \cup Captions

\* C7, amended: the preference holds among the fragments of one priority
\* scan: no p/div/span fragment is kept by the truncation while a heading or
\* caption fragment collected by the same scan is dropped by it.
C7_PreferredWithinScan ==
    pc = "done" =>
        \A j \in 1..Len(CappedTexts) :
            \A l \in (Len(CappedTexts) + 1)..Len(context_texts) :
                ( /\ context_srcs[j].root = context_srcs[l].root
                  /\ TagOf(j) \in TextContent )
                    => TagOf(l) \notin Headings \cup Captions

C7_Witness ==
    /\ pc = "done"
    /\ \E j \in 1..Len(CappedTexts) :
           \E l \in (Len(CappedTexts) + 1)..Len(context_texts) :
               /\ context_srcs[j].root = context_srcs[l].root
               /\ TagOf(j) \in Headings \cup Captions
               /\ TagOf(l) \in TextContent
               /\ Kept(j)
               /\ Dropped(l)

\* the priority tier of a tag
Tier(tag) == IF tag \in Headings THEN 1 ELSE IF tag \in Captions THEN 2 ELSE 3

\* C8: what one priority scan returns holds the headings first, then the
\* captions, then the p/div/span texts, each tier in document order, and
\* holds every such element of the subtree whose text is longer than
\* min_fragment_length: a heading comes before a paragraph of the same scan.
C8_PriorityOrder ==
    \A k \in 1..Len(scans) :
        LET srcs == scans[k].srcs
        IN  /\ \A i, j \in 1..Len(srcs) :
                   i < j =>
                       \/ Tier(doc[srcs[i]].tag) < Tier(doc[srcs[j]].tag)
                       \/ /\ Tier(doc[srcs[i]].tag) = Tier(doc[srcs[j]].tag)
                          /\ srcs[i] < srcs[j]
            /\ \A m \in 1..Len(doc) :
                   ( /\ IsDescendant(doc, m, scans[k].root)
                     /\ doc[m].tag \in Headings \cup Captions \cup TextContent
                     /\ Len(extract_text_content(doc, m)) > min_length )
                       => m \in Range(srcs)

C8_Witness ==
    \E k \in 1..Len(scans) :
        \E i, j \in 1..Len(scans[k].srcs) :
            /\ i < j
            /\ doc[scans[k].srcs[i]].tag \in Headings
            /\ doc[scans[k].srcs[j]].tag = "p"
            /\ scans[k].srcs[j] < scans[k].srcs[i]

\* C9, as claimed: in one call the text of any single element is appended to
\* the context collection at most once.
C9_AsClaimed ==
    \A i, j \in 1..Len(context_srcs) :
        context_srcs[i].elem = context_srcs[j].elem => i = j

\* C9, amended: in one call every node is the root of at most one priority
\* scan, and the text of any single element is appended at most once by each
\* scan: an element in the subtrees of several scanned roots is appended once
\* for each of them.
C9_OncePerScan ==
    /\ \A i, j \in 1..Len(scans) : scans[i].root = scans[j].root => i = j
    /\ \A i, j \in 1..Len(context_srcs) :
           context_srcs[i] = context_srcs[j] => i = j
    /\ \A i \in 1..Len(context_srcs) :
           /\ IsDescendant(doc, context_srcs[i].elem, context_srcs[i].root)
           /\ context_srcs[i].root \in processed_elements

C9_Witness ==
    /\ pc = "done"
    /\ \E i, j \in 1..Len(context_srcs) :
           /\ i < j
           /\ context_srcs[i].elem = context_srcs[j].elem
           /\ context_srcs[i].root # context_srcs[j].root

\* C10: find_context_elements called with None returns an empty list and
\* raises no exception.
C10_NoneReturnsEmpty ==
    (img_element = NoNode /\ pc # "call") => (pc = "done" /\ result = <<>>)

\* C11: find_context_elements called twice on the same image node of an
\* unchanged document with the same configuration returns the same list, the
\* later call starting from an empty visited set.
C11_SameResultAgain ==
    /\ (pc = "done" /\ calls >= 1) => result = first_result
    /\ (pc = "upward" /\ depth = 0) => (processed_elements = {} /\ context_texts = <<>>)

C11_Witness ==
    /\ pc = "done"
    /\ calls = 1
    /\ Len(scans) >= 2
    /\ Len(result) >= 2
    /\ result = first_result

\* C12, as claimed: normalization never removes a fragment: every fragment
\* among the first max_fragments collected is in the result with its
\* normalized text, the empty string included.
C12_AsClaimed ==
    pc = "done" =>
        \A j \in 1..Len(CappedTexts) : CleanText(CappedTexts[j]) \in Range(result)

\* C12, amended: a fragment whose normalized text is the empty string is
\* removed from the list, so the result never holds the empty string; every
\* other fragment among the first max_fragments collected is in the result
\* with its normalized text, whatever its length: no length test follows
\* normalization.
C12_EmptyRemoved ==
    pc = "done" =>
        /\ <<>> \notin Range(result)
        /\ \A j \in 1..Len(CappedTexts) :
               CleanText(CappedTexts[j]) # <<>> =>
                   CleanText(CappedTexts[j]) \in Range(result)

C12_Witness ==
    /\ pc = "done"
    /\ result # <<>>
    /\ \E j \in 1..Len(CappedTexts) :
           /\ Len(CappedTexts[j]) > min_length
           /\ CleanText(CappedTexts[j]) = <<>>
    /\ \E j \in 1..Len(CappedTexts) :
           /\ CleanText(CappedTexts[j]) # <<>>
           /\ Len(CleanText(CappedTexts[j])) <= min_length

\* C13: a paragraph that is a sibling of the image, with text longer than
\* min_fragment_length, is in the result whenever the cap is not reached,
\* also when search_depth is 0.
C13_SiblingParagraphCaught ==
    pc = "done" =>
        \A m \in 1..Len(doc) :
            ( /\ m # img_element
              /\ Parent(doc, m) = Parent(doc, img_element)
              /\ doc[m].tag = "p"
              /\ Len(extract_text_content(doc, m)) > min_length
              /\ CleanText(extract_text_content(doc, m)) = extract_text_content(doc, m)
              /\ Len(context_texts) < max_elements )
                => extract_text_content(doc, m) \in Range(result)

----------------------------------------------------------------------------
(* extract_images: the images of a page, each with its alternative text    *)
(* and its context.                                                        *)

UpperCase ==
    <<"A", "B", "C", "D", "E", "F", "G", "H", "I", "J", "K", "L", "M",
      "N", "O", "P", "Q", "R", "S", "T", "U", "V", "W", "X", "Y", "Z">>
LowerCase ==
    <<"a", "b", "c", "d", "e", "f", "g", "h", "i", "j", "k", "l", "m",
      "n", "o", "p", "q", "r", "s", "t", "u", "v", "w", "x", "y", "z">>

\* s.lower()
lower(s) ==
    [i \in 1..Len(s) |->
        IF \E k \in 1..Len(UpperCase) : UpperCase[k] = s[i]
        THEN LowerCase[CHOOSE k \in 1..Len(UpperCase) : UpperCase[k] = s[i]]
        ELSE s[i]]

\* s.endswith(suffix)
endswith(s, suffix) ==
    Len(suffix) <= Len(s) /\ SubSeq(s, Len(s) - Len(suffix) + 1, Len(s)) = suffix

is_supported_image(img_url, extensions) ==
    \E k \in 1..Len(extensions) : endswith(lower(img_url), extensions[k])

\* the URL starts with a scheme and "//"
HasScheme(url) == StartsWith(url, S_HttpPrefix) \/ StartsWith(url, S_HttpsPrefix)

\* the scheme of a URL that has one, with its colon
SchemeOf(url) == SubSeq(url, 1, Find(url, <<":">>))

\* scheme://netloc of a URL that has a scheme
OriginOf(url) ==
    LET start == Find(url, <<"/", "/">>) + 2
        rest == SubSeq(url, start, Len(url))
        slash == Find(rest, <<"/">>)
    IN  IF slash = 0 THEN url ELSE SubSeq(url, 1, start + slash - 2)

\* a URL up to its last "/" (nothing when it has none after scheme://netloc)
DirOf(url) ==
    LET from == IF HasScheme(url) THEN Len(OriginOf(url)) + 1 ELSE 1
        slashes == {i \in from..Len(url) : url[i] = "/"}
    IN  IF slashes = {} THEN IF HasScheme(url) THEN url \o <<"/">> ELSE <<>>
        ELSE SubSeq(url, 1, CHOOSE i \in slashes : \A j \in slashes : j <= i)

\* urljoin forgotten: the src as it is written
urljoin_forgotten(base, url) == url

\* urllib.parse.urljoin(base, url), for http(s) and relative URLs without
\* query, fragment or dot segments
urljoin(base, url) ==
    IF base = <<>> THEN url
    ELSE IF url = <<>> THEN base
    ELSE IF HasScheme(url) THEN url
    ELSE IF StartsWith(url, <<"/", "/">>)
         THEN IF HasScheme(base) THEN SchemeOf(base) \o url ELSE url
    ELSE IF url[1] = "/"
         THEN IF HasScheme(base) THEN OriginOf(base) \o url ELSE url
    ELSE DirOf(base) \o url

\* ImageInfo(url=.., alt_text=.., context=..) after __post_init__
ImageInfo(url, alt_text, context) ==
    [url |-> Strip(url), alt_text |-> Strip(alt_text), context |-> Strip(context),
     suggested_alt_text |-> <<>>]

\* img.get("src") alone
SrcOnly(d, img) == d[img].src

\* img.get("src") or img.get("data-src")
SrcOf(d, img) == IF d[img].src # <<>> THEN d[img].src ELSE d[img].data_src

\* soup.find_all("img")
img_tags == find_all(doc, 1, {"img"})

\* <img src="z.png"><div><h1>Data shown.</h1><img ..><p> Data shown.
\* Quelle: Office </p><img ..></div>, the two images of the div as given
DocImages(img1, img2) ==
    <<Element("[document]", 0), Img(1, S_ZPng), Element("div", 1),
      Element("h1", 3), Text(4, S_Data),
      ImgWith(3, img1[1], img1[2], img1[3]),
      Element("p", 3), Text(7, S_DataQuelleRaw),
      ImgWith(3, img2[1], img2[2], img2[3])>>

SrcPool == {<<>>, S_AJpg, S_IconSvg, S_BPng, S_RootedPng, S_CdnJpg}
DataSrcPool == {<<>>, S_LazyPng}
AltPool == {<<>>, S_Alt}
ImgPool == SrcPool \X DataSrcPool \X AltPool
ImageDocs == {DocImages(i[1], i[2]) : i \in ImgPool \X ImgPool}
BaseUrls == {S_PageUrl, S_PagePath}
ExtensionConfigs == {<<EXT_jpg, EXT_png>>, <<EXT_jpg, EXT_PNG>>}

\* no ancestor is searched
ConfigShallow ==
    [context_search_depth |-> 0, max_context_elements |-> MaxContextElements,
     minimal_text_length |-> 10]

InitImages ==
    /\ doc \in ImageDocs
    /\ config \in {ConfigExample, ConfigShallow}
    /\ base_url \in BaseUrls
    /\ supported_extensions \in ExtensionConfigs
    /\ images = <<>>
    /\ image_nodes = <<>>
    /\ img_pos = 0
    /\ images_pc = "loop"
    /\ img_element = NoNode
    /\ pc = "idle"
    /\ context_texts = <<>>
    /\ context_srcs = <<>>
    /\ processed_elements = {}
    /\ scans = <<>>
    /\ current = NoNode
    /\ depth = 0
    /\ idx = 0
    /\ result = <<>>
    /\ calls = 0
    /\ first_result = <<>>
    /\ HttpIdle
    /\ SingleThreaded
    /\ AppIdle

\* the img the loop is at, and the URL it resolves to
img == img_tags[img_pos + 1]
img_url == urljoin(base_url, SrcOf(doc, img))

scraper_vars ==
    <<img_element, pc, context_texts, context_srcs, processed_elements, scans,
      current, depth, idx, result>>

\* the three `continue` of the loop: no src, or an unsupported URL
ImageSkipped ==
    /\ images_pc = "loop"
    /\ img_pos < Len(img_tags)
    /\ SrcOf(doc, img) = <<>> \/ ~is_supported_image(img_url, supported_extensions)
    /\ img_pos' = img_pos + 1
    /\ UNCHANGED <<doc, config, scraper_vars, calls, first_result, base_url,
                   supported_extensions, images, image_nodes, images_pc>>
    /\ UNCHANGED <<http_vars, thread_vars, app_vars>>

\* self.find_context_elements(img) is called
ImageContextCall ==
    /\ images_pc = "loop"
    /\ img_pos < Len(img_tags)
    /\ SrcOf(doc, img) # <<>>
    /\ is_supported_image(img_url, supported_extensions)
    /\ img_element' = img
    /\ pc' = "call"
    /\ images_pc' = "context"
    /\ UNCHANGED <<doc, config, context_texts, context_srcs, processed_elements,
                   scans, current, depth, idx, result, calls, first_result,
                   base_url, supported_extensions, images, image_nodes, img_pos>>
    /\ UNCHANGED <<http_vars, thread_vars, app_vars>>

\* find_context_elements has returned: the record is built and appended
ImageAppend ==
    /\ images_pc = "context"
    /\ pc = "done"
    /\ images' = Append(images,
                        ImageInfo(img_url, Strip(doc[img].alt), Join(result, <<"\n">>)))
    /\ image_nodes' = Append(image_nodes, img)
    /\ img_pos' = img_pos + 1
    /\ images_pc' = "loop"
    /\ pc' = "idle"
    /\ UNCHANGED <<doc, config, img_element, context_texts, context_srcs,
                   processed_elements, scans, current, depth, idx, result, calls,
                   first_result, base_url, supported_extensions>>
    /\ UNCHANGED <<http_vars, thread_vars, app_vars>>

\* return images
ImagesReturn ==
    /\ images_pc = "loop"
    /\ img_pos = Len(img_tags)
    /\ images_pc' = "done"
    /\ UNCHANGED <<doc, config, scraper_vars, calls, first_result, base_url,
                   supported_extensions, images, image_nodes, img_pos>>
    /\ UNCHANGED <<http_vars, thread_vars, app_vars>>

NextImages ==
    \/ ImageSkipped
    \/ ImageContextCall
    \/ FindContextElements
    \/ CollectUpwardStep
    \/ CollectUpwardReturn
    \/ CollectSiblingCall
    \/ CollectSiblingStep
    \/ CollectSiblingReturn
    \/ CollectDescendantCall
    \/ CollectDescendantStep
    \/ CollectDescendantReturn
    \/ CleanAndReturn
    \/ ImageAppend
    \/ ImagesReturn

SpecImages == InitImages /\ [][NextImages]_vars

----------------------------------------------------------------------------
(* Claims about extract_images.                                            *)

\* the img elements of the document that have a source: src, else data-src
SourcedImgs ==
    SelectSeq(img_tags,
              LAMBDA n : doc[n].src # <<>> \/ doc[n].data_src # <<>>)

\* the source of an img: src, else data-src
SourceOf(n) == IF doc[n].src # <<>> THEN doc[n].src ELSE doc[n].data_src

\* the URL the source of img n resolves to
ResolvedUrl(n) == urljoin(base_url, SourceOf(n))

\* the URL ends with one of supported_extensions, the case of neither counting
EndsWithExtension(url) ==
    \E k \in 1..Len(supported_extensions) :
        endswith(lower(url), lower(supported_extensions[k]))

\* C14: extract_images excludes every image whose resolved URL does not end
\* with one of supported_extensions and includes every image whose URL does,
\* the comparison ignoring the case of the URL and of the configured
\* extension; an image with src="icon.svg" is absent under [".jpg", ".png"].
C14_CaseInsensitiveFilter ==
    images_pc = "done" =>
        /\ \A k \in 1..Len(SourcedImgs) :
               SourcedImgs[k] \in Range(image_nodes)
                   <=> EndsWithExtension(ResolvedUrl(SourcedImgs[k]))
        /\ \A k \in 1..Len(images) : ~endswith(images[k].url, S_IconSvg)

\* the img elements that have a source whose resolved URL is_supported_image
\* accepts, in document order
SupportedImgs ==
    SelectSeq(SourcedImgs,
              LAMBDA n : is_supported_image(ResolvedUrl(n), supported_extensions))

\* C15: the list extract_images returns is the subsequence of the document's
\* img elements that have a source (src, else data-src) with a supported
\* extension, one record per such element, in the order the elements occur;
\* an img with neither attribute produces no record.
C15_DocumentOrder ==
    /\ Len(images) = Len(image_nodes)
    /\ \A j, k \in 1..Len(image_nodes) : j < k => image_nodes[j] < image_nodes[k]
    /\ \A k \in 1..Len(image_nodes) :
           /\ doc[image_nodes[k]].src # <<>> \/ doc[image_nodes[k]].data_src # <<>>
           /\ images[k].url = ResolvedUrl(image_nodes[k])
    /\ images_pc = "done" => image_nodes = SupportedImgs

\* the call returned two records, the second of an img that has only
\* data-src, and skipped an img with neither attribute between the two
C15_Witness ==
    /\ images_pc = "done"
    /\ Len(images) = 2
    /\ doc[image_nodes[2]].src = <<>>
    /\ doc[image_nodes[2]].data_src = S_LazyPng
    /\ \E n \in Range(img_tags) :
           /\ doc[n].src = <<>> /\ doc[n].data_src = <<>>
           /\ image_nodes[1] < n /\ n < image_nodes[2]

\* a URL with a scheme and a host
IsAbsoluteUrl(url) ==
    /\ HasScheme(url)
    /\ LET host == Find(url, <<"/", "/">>) + 2
       IN  host <= Len(url) /\ url[host] # "/"

\* no leading or trailing whitespace
IsTrimmed(s) == s = <<>> \/ (s[1] \notin Whitespace /\ s[Len(s)] \notin Whitespace)

----------------------------------------------------------------------------
(* http_client.py: the shared HTTP client.                                 *)

MaxHttpCalls == 6   \* the program calls get_http_client / close_http_client
                    \* up to MaxHttpCalls times before it exits

\* the find_context_elements and extract_images state, not in use
ScraperIdle ==
    /\ doc = DocDetached
    /\ config = ConfigExample
    /\ img_element = NoNode
    /\ pc = "idle"
    /\ context_texts = <<>>
    /\ context_srcs = <<>>
    /\ processed_elements = {}
    /\ scans = <<>>
    /\ current = NoNode
    /\ depth = 0
    /\ idx = 0
    /\ result = <<>>
    /\ calls = 0
    /\ first_result = <<>>
    /\ ImagesIdle
    /\ SingleThreaded
    /\ AppIdle

InitHttp ==
    /\ ScraperIdle
    /\ _http_client = 0
    /\ http_clients = 0
    /\ session_closes = <<>>
    /\ atexit_callbacks = 0
    /\ http_calls = <<>>
    /\ http_pc = "running"

scraper_and_images_vars ==
    <<doc, config, scraper_vars, calls, first_result, images_vars, thread_vars,
      app_vars>>

\* close_http_client leaves the global as it is
client_kept == _http_client

\* "_http_client = None"
client_after_close == 0

\* close() does not close the session
session_closes_kept == session_closes

\* "_http_client.close()": self.session.close()
session_closes_after_close == [session_closes EXCEPT ![_http_client] = @ + 1]

\* get_http_client()
GetHttpClient ==
    /\ http_pc = "running"
    /\ Len(http_calls) < MaxHttpCalls
    /\ IF _http_client = 0
       THEN /\ http_clients' = http_clients + 1
            /\ _http_client' = http_clients + 1
            /\ session_closes' = Append(session_closes, 0)
            /\ atexit_callbacks' = atexit_callbacks + 1
       ELSE UNCHANGED <<http_clients, _http_client, session_closes, atexit_callbacks>>
    /\ http_calls' = Append(http_calls, [op |-> "get", ret |-> _http_client'])
    /\ UNCHANGED http_pc
    /\ UNCHANGED scraper_and_images_vars

\* the body of close_http_client()
CloseBody ==
    IF _http_client # 0
    THEN /\ session_closes' = session_closes_after_close
         /\ _http_client' = client_after_close
    ELSE UNCHANGED <<session_closes, _http_client>>

\* close_http_client(), called by the program
CloseHttpClient ==
    /\ http_pc = "running"
    /\ Len(http_calls) < MaxHttpCalls
    /\ CloseBody
    /\ http_calls' = Append(http_calls, [op |-> "close", ret |-> 0])
    /\ UNCHANGED <<http_clients, atexit_callbacks, http_pc>>
    /\ UNCHANGED scraper_and_images_vars

\* the interpreter exits
Exit ==
    /\ http_pc = "running"
    /\ http_pc' = "exiting"
    /\ UNCHANGED <<_http_client, http_clients, session_closes, atexit_callbacks,
                   http_calls>>
    /\ UNCHANGED scraper_and_images_vars

\* at exit, one registered close_http_client runs
AtexitClose ==
    /\ http_pc = "exiting"
    /\ atexit_callbacks > 0
    /\ CloseBody
    /\ atexit_callbacks' = atexit_callbacks - 1
    /\ http_calls' = Append(http_calls, [op |-> "close", ret |-> 0])
    /\ UNCHANGED <<http_clients, http_pc>>
    /\ UNCHANGED scraper_and_images_vars

\* all the registered functions have run
Exited ==
    /\ http_pc = "exiting"
    /\ atexit_callbacks = 0
    /\ http_pc' = "exited"
    /\ UNCHANGED <<_http_client, http_clients, session_closes, atexit_callbacks,
                   http_calls>>
    /\ UNCHANGED scraper_and_images_vars

NextHttp ==
    \/ GetHttpClient
    \/ CloseHttpClient
    \/ Exit
    \/ AtexitClose
    \/ Exited

SpecHttp == InitHttp /\ [][NextHttp]_vars

----------------------------------------------------------------------------
(* Claims about the shared HTTP client.                                    *)

IsGet(k) == http_calls[k].op = "get"
IsClose(k) == http_calls[k].op = "close"

\* C17: after any sequence of get_http_client and close_http_client calls,
\* two get_http_client calls with no close_http_client between them return
\* the same instance, and the first get_http_client after a
\* close_http_client returns a new instance, distinct from every instance
\* returned before that close.
C17_SingletonUntilClosed ==
    /\ \A i, j \in 1..Len(http_calls) :
           ( i < j /\ IsGet(i) /\ IsGet(j) /\ \A k \in i..j : ~IsClose(k) )
               => http_calls[i].ret = http_calls[j].ret
    /\ \A j, k \in 1..Len(http_calls) :
           ( j < k /\ IsClose(j) /\ IsGet(k) /\ \A m \in (j + 1)..(k - 1) : ~IsGet(m) )
               => /\ http_calls[k].ret # 0
                  /\ \A i \in 1..(j - 1) : IsGet(i) => http_calls[k].ret # http_calls[i].ret

\* get, get, close, get: the first two calls returned one instance, the last
\* another
C17_Witness ==
    /\ Len(http_calls) = 4
    /\ IsGet(1) /\ IsGet(2) /\ IsClose(3) /\ IsGet(4)
    /\ http_calls[1].ret = http_calls[2].ret
    /\ http_calls[4].ret # http_calls[1].ret

\* the step is a call of close_http_client, by the program or at exit
ClosesNow ==
    /\ Len(http_calls') = Len(http_calls) + 1
    /\ http_calls'[Len(http_calls')].op = "close"

\* C18: close_http_client closes the current client's session exactly once
\* and resets the global to None; called when no client exists, or again, it
\* closes nothing further and leaves the global None.
C18_CloseIdempotent ==
    /\ [](\A c \in 1..http_clients :
             session_closes[c] = IF c = _http_client THEN 0 ELSE 1)
    /\ []((http_calls # <<>> /\ IsClose(Len(http_calls))) => _http_client = 0)
    /\ [][ClosesNow =>
            /\ _http_client' = 0
            /\ \A c \in 1..http_clients :
                   session_closes'[c] =
                       session_closes[c] + (IF c = _http_client THEN 1 ELSE 0)]_vars
    /\ [][(ClosesNow /\ _http_client = 0) => session_closes' = session_closes]_vars

\* close with no client, get, close, close, further calls, then the exit of
\* the interpreter with the registered close run last: the session of the
\* first instance was closed once
C18_Witness ==
    /\ http_pc = "exited"
    /\ Len(http_calls) >= 6
    /\ IsClose(1) /\ IsGet(2) /\ IsClose(3) /\ IsClose(4)
    /\ IsClose(Len(http_calls)) /\ IsClose(Len(http_calls) - 1)
    /\ http_clients >= 1
    /\ session_closes[1] = 1

----------------------------------------------------------------------------
(* Two calls of find_context_elements on two images of one document, on    *)
(* two threads. Each call has its own local variables; the running call's  *)
(* are the variables of the model and the other call's are parked. A step  *)
(* reads the document and touches only the locals of the call it is of.    *)

\* <div><h1>a</h1><p>c</p><img src="a.jpg"><div><h2>b</h2><img src="b.jpg">
\* </div></div>
DocNested(a, b, c) ==
    <<Element("[document]", 0), Element("div", 1), Element("h1", 2), Text(3, a),
      Element("p", 2), Text(5, c), Img(2, S_AJpg), Element("div", 2),
      Element("h2", 8), Text(9, b), Img(8, S_BJpg)>>

ThreadTextPool == {S_Data, S_Alpine, S_Taken}
ThreadDocs ==
    {DocNested(t[1], t[2], t[3]) : t \in ThreadTextPool \X ThreadTextPool \X ThreadTextPool}
    \cup {DocC(t[1], t[2], t[3]) : t \in ThreadTextPool \X ThreadTextPool \X ThreadTextPool}
ThreadConfigs == {c \in Configs : c.minimal_text_length = 10}

\* the two images of the document
FirstImage == CHOOSE n \in Images(doc) : \A m \in Images(doc) : n <= m
SecondImage == CHOOSE n \in Images(doc) : \A m \in Images(doc) : m <= n

InitThreads ==
    /\ doc \in ThreadDocs
    /\ config \in ThreadConfigs
    /\ img_element = FirstImage
    /\ pc = "call"
    /\ context_texts = <<>>
    /\ context_srcs = <<>>
    /\ processed_elements = {}
    /\ scans = <<>>
    /\ current = NoNode
    /\ depth = 0
    /\ idx = 0
    /\ result = <<>>
    /\ calls = 0
    /\ first_result = <<>>
    /\ ImagesIdle
    /\ HttpIdle
    /\ SingleThreaded
    /\ AppIdle

\* a call that ran alone has returned: the other image's call runs alone
\* next, and after it the two calls are started on two threads
AloneReturn ==
    /\ pc = "done"
    /\ calls < 2
    /\ alone' = Append(alone, result)
    /\ calls' = calls + 1
    /\ pc' = "call"
    /\ IF calls = 0
       THEN /\ img_element' = SecondImage
            /\ parked' = parked
       ELSE /\ img_element' = FirstImage
            /\ parked' = [NoCall EXCEPT !.img_element = SecondImage, !.pc = "call"]
    /\ UNCHANGED <<doc, config, context_texts, context_srcs, processed_elements,
                   scans, current, depth, idx, result, first_result, images_vars,
                   http_vars, app_vars>>

\* one visited set for both calls
processed_elements_shared == processed_elements

\* the visited set of the call that resumes: its own local variable
processed_elements_resumed == parked.processed_elements

\* the scheduler suspends the running call and resumes the other one
Switch ==
    /\ calls = 2
    /\ parked.pc \notin {"idle", "done"}
    /\ parked' =
           [img_element |-> img_element, pc |-> pc, context_texts |-> context_texts,
            context_srcs |-> context_srcs, processed_elements |-> processed_elements,
            scans |-> scans, current |-> current, depth |-> depth, idx |-> idx,
            result |-> result]
    /\ img_element' = parked.img_element
    /\ pc' = parked.pc
    /\ context_texts' = parked.context_texts
    /\ context_srcs' = parked.context_srcs
    /\ processed_elements' = processed_elements_resumed
    /\ scans' = parked.scans
    /\ current' = parked.current
    /\ depth' = parked.depth
    /\ idx' = parked.idx
    /\ result' = parked.result
    /\ UNCHANGED <<doc, config, calls, first_result, alone, images_vars, http_vars,
                   app_vars>>

NextThreads ==
    \/ FindContextElements
    \/ CollectUpwardStep
    \/ CollectUpwardReturn
    \/ CollectSiblingCall
    \/ CollectSiblingStep
    \/ CollectSiblingReturn
    \/ CollectDescendantCall
    \/ CollectDescendantStep
    \/ CollectDescendantReturn
    \/ CleanAndReturn
    \/ AloneReturn
    \/ Switch

SpecThreads == InitThreads /\ [][NextThreads]_vars

\* what the call on an image returned when it ran alone
AloneResult(image) == IF image = FirstImage THEN alone[1] ELSE alone[2]

\* the roots of the scans a call has made
ScanRoots(call_scans) == {call_scans[i].root : i \in 1..Len(call_scans)}

\* a call is past its entry and has not returned
InProgress(call_pc) == call_pc \notin {"idle", "call", "done", "raised"}

\* C19: context extractions for two images of the same unchanged document,
\* run concurrently in any interleaving, each return the list they return
\* when run alone; the visited set of a call holds the nodes that call has
\* scanned and no others.
C19_SameAsAlone ==
    calls = 2 =>
        /\ pc = "done" => result = AloneResult(img_element)
        /\ parked.pc = "done" => parked.result = AloneResult(parked.img_element)
        /\ InProgress(pc) => processed_elements = ScanRoots(scans)
        /\ InProgress(parked.pc) => parked.processed_elements = ScanRoots(parked.scans)

\* one call has returned a list of two texts or more while the other call is
\* suspended between two of its scans, and both calls have scanned one same
\* node
C19_Witness ==
    /\ calls = 2
    /\ pc = "done"
    /\ Len(result) >= 2
    /\ InProgress(parked.pc)
    /\ parked.img_element # img_element
    /\ processed_elements \cap parked.processed_elements # {}
    /\ parked.context_texts # <<>>

----------------------------------------------------------------------------
(* extract_context_from_element called directly, with a visited set the    *)
(* caller keeps from call to call, next to the calls find_context_elements *)
(* makes of it.                                                            *)

MaxExtractCalls == 3   \* extract_context_from_element is called directly up to
                       \* MaxExtractCalls times on one visited set

ExtractDocs == {DocA(t[1], t[2], t[3]) : t \in SmallTextPool \X SmallTextPool \X SmallTextPool}

InitExtract ==
    /\ \/ /\ doc \in SmallDocs
          /\ config \in Configs
          /\ img_element \in Images(doc)
          /\ pc = "call"
       \/ /\ doc \in ExtractDocs
          /\ config \in {c \in Configs : /\ c.context_search_depth = 0
                                         /\ c.max_context_elements = 1}
          /\ img_element = NoNode
          /\ pc = "extract"
    /\ context_texts = <<>>
    /\ context_srcs = <<>>
    /\ processed_elements = {}
    /\ scans = <<>>
    /\ current = NoNode
    /\ depth = 0
    /\ idx = 0
    /\ result = <<>>
    /\ calls = 0
    /\ first_result = <<>>
    /\ ImagesIdle
    /\ HttpIdle
    /\ SingleThreaded
    /\ AppIdle

\* context = self.extract_context_from_element(element, processed_elements),
\* for None or a tag of the document
ExtractContextCall ==
    /\ pc = "extract"
    /\ calls < MaxExtractCalls
    /\ \E element \in {NoNode} \cup {n \in 1..Len(doc) : IsTag(doc, n)} :
           LET srcs == ScanSources(doc, element, processed_elements, min_length)
           IN  /\ current' = element
               /\ result' = extract_context_from_element(doc, element,
                                                         processed_elements, min_length)
               /\ processed_elements' = ProcessedAfter(element, processed_elements)
               /\ scans' = IF ScanSkipped(element, processed_elements)
                           THEN scans
                           ELSE Append(scans, [root |-> element, srcs |-> srcs])
    /\ calls' = calls + 1
    /\ UNCHANGED <<doc, config, img_element, pc, context_texts, context_srcs, depth,
                   idx, first_result, images_vars, http_vars, thread_vars,
                   app_vars>>

NextExtract ==
    \/ ExtractContextCall
    \/ FindContextElements
    \/ CollectUpwardStep
    \/ CollectUpwardReturn
    \/ CollectSiblingCall
    \/ CollectSiblingStep
    \/ CollectSiblingReturn
    \/ CollectDescendantCall
    \/ CollectDescendantStep
    \/ CollectDescendantReturn
    \/ CleanAndReturn

SpecExtract == InitExtract /\ [][NextExtract]_vars

\* the step is a direct call of extract_context_from_element
CalledDirectly == pc = "extract" /\ calls' = calls + 1

\* C20: every node is the root of at most one priority scan on one visited
\* set; extract_context_from_element returns [] and leaves the visited set
\* unchanged when the element is None or already in the set, and otherwise
\* adds the element to the set and scans it, so a node scanned in the upward
\* phase is never scanned again in the sibling or descendant phase.
C20_ScannedOnce ==
    /\ [](\A i, j \in 1..Len(scans) : i # j => scans[i].root # scans[j].root)
    /\ [](processed_elements = ScanRoots(scans))
    /\ [][CalledDirectly =>
            IF current' = NoNode \/ current' \in processed_elements
            THEN /\ result' = <<>>
                 /\ processed_elements' = processed_elements
                 /\ scans' = scans
            ELSE /\ processed_elements' = processed_elements \cup {current'}
                 /\ Len(scans') = Len(scans) + 1
                 /\ scans'[Len(scans')].root = current']_vars

\* after a direct call that scanned an element and returned texts, a later
\* call on that element has returned [] and left the set as it was
C20_Witness ==
    /\ pc = "extract"
    /\ calls >= 2
    /\ current # NoNode
    /\ result = <<>>
    /\ \E i \in 1..Len(scans) : scans[i].root = current /\ scans[i].srcs # <<>>

----------------------------------------------------------------------------
(* Claims about the phases of find_context_elements.                       *)

\* the k-th ancestor of a node (the parent is the first), None above the root
RECURSIVE Ancestor(_, _, _)
Ancestor(d, n, k) ==
    IF k = 0 \/ n = NoNode THEN n ELSE Ancestor(d, Parent(d, n), k - 1)

\* how many fragments the first k scans of the call collected
CollectedBy(k) ==
    Cardinality({j \in 1..Len(context_srcs) :
                    \E i \in 1..k : context_srcs[j].root = scans[i].root})

\* C21: the upward phase scans the ancestors of the image nearest first,
\* starting at the parent, and at most search_depth of them; it goes on to
\* the next ancestor exactly while the depth is not exhausted, the root has
\* not been passed and fewer than max_fragments fragments are collected;
\* with search_depth 0 no ancestor is scanned or marked visited.
C21_UpwardPhase ==
    pc \in {"upward", "sibling_call"} =>
        /\ Len(scans) = depth
        /\ depth <= config.context_search_depth
        /\ \A k \in 1..Len(scans) :
               /\ scans[k].root # NoNode
               /\ scans[k].root = Ancestor(doc, img_element, k)
               /\ CollectedBy(k - 1) < max_elements
        /\ current = Ancestor(doc, img_element, depth + 1)
        /\ pc = "sibling_call" =>
               \/ depth = config.context_search_depth
               \/ Ancestor(doc, img_element, depth + 1) = NoNode
               \/ Len(context_texts) >= max_elements
        /\ config.context_search_depth = 0 =>
               scans = <<>> /\ processed_elements = {}

\* the phase has ended after scanning two ancestors, the parent first and
\* its parent next, with the depth exhausted while a third ancestor exists
C21_Witness ==
    /\ pc = "sibling_call"
    /\ depth = 2
    /\ config.context_search_depth = 2
    /\ current # NoNode
    /\ CollectedBy(1) > 0
    /\ CollectedBy(1) < Len(context_texts)
    /\ scans[1].root = Parent(doc, img_element)
    /\ scans[2].root = Parent(doc, scans[1].root)

\* the positions of a call, in the order the code passes them
Positions ==
    <<"call", "upward", "sibling_call", "sibling", "descendant_call", "descendant",
      "clean", "done", "raised">>
Rank(p) == CHOOSE i \in 1..Len(Positions) : Positions[i] = p

\* xs is a prefix of ys
IsPrefix(xs, ys) == Len(xs) <= Len(ys) /\ SubSeq(ys, 1, Len(xs)) = xs

\* C22: the fragments are collected in the fixed phase order upward, sibling,
\* descendant, each new fragment after those collected before; a priority
\* scan is started only in one of the three phases and only with fewer than
\* max_fragments fragments collected, so once the cap is reached no further
\* scan is made and nothing more is collected.
C22_PhaseOrderAndCap ==
    /\ [][Rank(pc') >= Rank(pc)]_vars
    /\ [][pc # "call" => IsPrefix(context_texts, context_texts')]_vars
    /\ [][Len(scans') > Len(scans) =>
            /\ pc \in {"upward", "sibling", "descendant"}
            /\ Len(context_texts) < max_elements]_vars
    /\ [][(pc # "call" /\ Len(context_texts) >= max_elements) =>
            (scans' = scans /\ context_texts' = context_texts)]_vars

\* the call has returned with the cap reached in the sibling phase: a child
\* of the parent was scanned, another one that the phase would scan was not
C22_Witness ==
    /\ pc = "done"
    /\ Len(context_texts) >= max_elements
    /\ \E m, n \in 1..Len(doc) :
           /\ Parent(doc, m) = Parent(doc, img_element)
           /\ Parent(doc, n) = Parent(doc, img_element)
           /\ m < n
           /\ m \in processed_elements
           /\ n \notin processed_elements
           /\ IsTag(doc, n)
           /\ ~TagEq(doc, n, img_element)

\* the first max_fragments collected fragments, normalized
NormalizedFirst ==
    [j \in 1..(IF max_elements < Len(context_texts)
               THEN max_elements ELSE Len(context_texts)) |->
        CleanText(context_texts[j])]

\* xs is the order-preserving deduplication of ys
IsDeduplicationOf(xs, ys) ==
    /\ Range(xs) = Range(ys)
    /\ \A i, j \in 1..Len(xs) :
           i < j => /\ xs[i] # xs[j]
                    /\ FirstPos(ys, xs[i]) < FirstPos(ys, xs[j])

\* C23, as claimed: the result is the order-preserving deduplication of the
\* normalized first max_fragments collected fragments.
C23_AsClaimed ==
    pc = "done" => IsDeduplicationOf(result, NormalizedFirst)

\* C23: truncation is applied before deduplication: the result is the
\* order-preserving deduplication of the non-empty normalized texts of the
\* first max_fragments collected fragments, so a fragment collected after
\* position max_fragments has no part in the result, even when the
\* deduplication leaves fewer than max_fragments fragments.
C23_TruncatedThenDeduplicated ==
    pc = "done" =>
        IsDeduplicationOf(result, SelectSeq(NormalizedFirst, LAMBDA t : t # <<>>))

\* the first max_fragments fragments held a duplicate, so the result is
\* shorter than max_fragments, and a fragment collected after them, with a
\* text of its own, is not in the result
C23_Witness ==
    /\ pc = "done"
    /\ max_elements >= 2
    /\ Len(context_texts) > max_elements
    /\ Len(result) < max_elements
    /\ result # <<>>
    /\ \A j \in 1..max_elements : CleanText(context_texts[j]) # <<>>
    /\ \E j \in (max_elements + 1)..Len(context_texts) :
           /\ CleanText(context_texts[j]) # <<>>
           /\ CleanText(context_texts[j]) \notin Range(result)

\* C24: the minimum-length check is made on the raw extracted text, before
\* normalization: every collected fragment has a raw text longer than
\* min_fragment_length, and each of them that the truncation keeps is in the
\* result with its normalized text whenever that text is non-empty, also when
\* noise stripping or attribution truncation left it no longer than
\* min_fragment_length; no length check follows normalization.
C24_LengthCheckedRaw ==
    /\ \A j \in 1..Len(context_texts) : Len(context_texts[j]) > min_length
    /\ pc = "done" =>
           \A j \in 1..Len(context_texts) :
               ( j <= max_elements /\ Len(CleanText(context_texts[j])) > 0 )
                   => \E i \in 1..Len(result) : result[i] = CleanText(context_texts[j])

\* the result holds a text that noise stripping, and another one that
\* attribution truncation, left no longer than min_fragment_length
C24_Witness ==
    /\ pc = "done"
    /\ \E j, k \in 1..Len(context_texts) :
           /\ HasTextToRemove(context_texts[j])
           /\ ~Contains(context_texts[j], QUELLE)
           /\ CleanText(context_texts[j]) \in Range(result)
           /\ Len(CleanText(context_texts[j])) <= min_length
           /\ Contains(context_texts[k], QUELLE)
           /\ ~HasTextToRemove(context_texts[k])
           /\ CleanText(context_texts[k]) \in Range(result)
           /\ Len(CleanText(context_texts[k])) <= min_length

\* the scan a step has just added to the history
NewScan == scans'[Len(scans')]

\* C25: in the descendant phase only direct children of the image's parent
\* that are not yet visited are scanned, and each such child adds at most one
\* fragment to the collection, the first fragment of its priority scan.
C25_DescendantPhase ==
    [][pc = "descendant" =>
          IF Len(scans') > Len(scans)
          THEN /\ Parent(doc, NewScan.root) = Parent(doc, img_element)
               /\ IsTag(doc, NewScan.root)
               /\ NewScan.root \notin processed_elements
               /\ IF NewScan.srcs = <<>>
                  THEN context_texts' = context_texts
                  ELSE context_texts' =
                           Append(context_texts,
                                  extract_text_content(doc, NewScan.srcs[1]))
          ELSE /\ scans' = scans
               /\ context_texts' = context_texts]_vars

\* the descendant phase, run after a sibling phase that scanned children of
\* the parent, has scanned the image itself and another child not visited
\* before
C25_Witness ==
    /\ pc = "clean"
    /\ \E i, j, k \in 1..Len(scans) :
           /\ i < j /\ j < k
           /\ Parent(doc, scans[i].root) = Parent(doc, img_element)
           /\ scans[j].root = img_element
           /\ Parent(doc, scans[k].root) = Parent(doc, img_element)

\* the priority scan of an element yields no fragment
YieldsNothing(element) == ScanGroups(doc, element, selectors, min_length) = <<>>

----------------------------------------------------------------------------
(* get_http_client called from the worker threads of a ThreadPoolExecutor, *)
(* as download_image does. The interpreter can switch threads between any  *)
(* two statements of the function: each statement is a step.               *)

\* the largest number of worker threads
MaxWorkers == 3

InitWorkers == InitHttp

\* what get_http_client does not touch
outside_workers ==
    <<doc, config, scraper_vars, calls, first_result, images_vars, thread_vars,
      batch_vars, websites_vars, session_vars>>

\* "executor.submit(processor_func, item)" for each item: the workers start
SubmitWorkers ==
    /\ http_pc = "running"
    /\ worker_pc = <<>>
    /\ \E n \in 1..MaxWorkers : worker_pc' = [w \in 1..n |-> "check"]
    /\ UNCHANGED http_vars
    /\ UNCHANGED outside_workers

\* "if _http_client is None:"
WorkerCheck(w) ==
    /\ worker_pc[w] = "check"
    /\ worker_pc' = [worker_pc EXCEPT ![w] = IF _http_client = 0 THEN "create"
                                                                 ELSE "return"]
    /\ UNCHANGED http_vars
    /\ UNCHANGED outside_workers

\* "_http_client = HttpClient()"
WorkerCreate(w) ==
    /\ worker_pc[w] = "create"
    /\ http_clients' = http_clients + 1
    /\ _http_client' = http_clients + 1
    /\ session_closes' = Append(session_closes, 0)
    /\ worker_pc' = [worker_pc EXCEPT ![w] = "register"]
    /\ UNCHANGED <<atexit_callbacks, http_calls, http_pc>>
    /\ UNCHANGED outside_workers

\* "atexit.register(close_http_client)"
WorkerRegister(w) ==
    /\ worker_pc[w] = "register"
    /\ atexit_callbacks' = atexit_callbacks + 1
    /\ worker_pc' = [worker_pc EXCEPT ![w] = "return"]
    /\ UNCHANGED <<_http_client, http_clients, session_closes, http_calls, http_pc>>
    /\ UNCHANGED outside_workers

\* "return _http_client": the global is read again
WorkerReturn(w) ==
    /\ worker_pc[w] = "return"
    /\ http_calls' = Append(http_calls, [op |-> "get", ret |-> _http_client])
    /\ worker_pc' = [worker_pc EXCEPT ![w] = "done"]
    /\ UNCHANGED <<_http_client, http_clients, session_closes, atexit_callbacks,
                   http_pc>>
    /\ UNCHANGED outside_workers

NextWorkers ==
    \/ SubmitWorkers
    \/ \E w \in DOMAIN worker_pc : WorkerCheck(w)
    \/ \E w \in DOMAIN worker_pc : WorkerCreate(w)
    \/ \E w \in DOMAIN worker_pc : WorkerRegister(w)
    \/ \E w \in DOMAIN worker_pc : WorkerReturn(w)

SpecWorkers == InitWorkers /\ [][NextWorkers]_vars

----------------------------------------------------------------------------
(* Claims about the shared HTTP client under concurrent first use.         *)

\* C27: when several worker threads call get_http_client concurrently while
\* no client exists, exactly one HttpClient is created and every caller
\* receives that same instance, in every interleaving.
C27_OneClientCreated ==
    /\ http_clients <= 1
    /\ \A i, j \in 1..Len(http_calls) : http_calls[i].ret = http_calls[j].ret
    /\ (\E w \in DOMAIN worker_pc : worker_pc[w] = "done") => http_clients = 1

----------------------------------------------------------------------------
(* BatchProcessor._process_parallel: the items are submitted to a          *)
(* ThreadPoolExecutor, the processors finish in any order, and the main    *)
(* thread takes the futures as as_completed yields them. A result dict is  *)
(* a record whose domain is the set of its keys.                           *)

\* Python's None where a string can stand
None == <<"None">>

\* "boom"
S_Boom == <<"b", "o", "o", "m">>

\* "if error": neither None nor the empty string
Truthy(value) == value # None /\ value # <<>>

\* the error key is there whatever the message
create_result_dict_with_error(url, context, original_alt_text, generated_alt_text, error) ==
    [url |-> url, context |-> context, original_alt_text |-> original_alt_text,
     generated_alt_text |-> generated_alt_text,
     success |-> generated_alt_text # None, error |-> error]

\* _create_result_dict(url, context, original_alt_text, generated_alt_text, error)
create_result_dict(url, context, original_alt_text, generated_alt_text, error) ==
    IF Truthy(error)
    THEN [url |-> url, context |-> context, original_alt_text |-> original_alt_text,
          generated_alt_text |-> generated_alt_text,
          success |-> generated_alt_text # None, error |-> error]
    ELSE [url |-> url, context |-> context, original_alt_text |-> original_alt_text,
          generated_alt_text |-> generated_alt_text,
          success |-> generated_alt_text # None]

\* an item that is a str: an image URL
UrlItem(url) == [str |-> url]

\* "isinstance(item, str)"
IsStr(item) == "str" \in DOMAIN item

\* the largest number of items
MaxItems == 2

\* the items: an image URL and an image of a scraped page
ItemPool == {UrlItem(S_CdnJpg), ImageInfo(S_AJpg, S_Alt, S_Data)}

\* the lists of items, the empty one and those with the same item twice too
ItemLists == UNION {[1..n -> ItemPool] : n \in 0..MaxItems}

\* what generate_alt_text returns: None or the cleaned text
AltTexts == {None, S_Taken}

\* str(e) of the exceptions a processor raises: "" (as of ValueError()) and "boom"
Messages == {<<>>, S_Boom}

\* process_single_url(url) and process_image_info(image_info) with the text
\* generate_alt_text returned
processor_func(item, alt_text) ==
    IF IsStr(item)
    THEN create_result_dict(item.str, <<>>, <<>>, alt_text, None)
    ELSE create_result_dict(item.url, item.context, item.alt_text, alt_text, None)

\* a future whose processor is running
Running == [state |-> "running"]

\* the ways a processor ends: it returns its result dict or raises
Outcomes(item) ==
    {[state |-> "returned", result |-> processor_func(item, alt_text)] :
        alt_text \in AltTexts}
    \cup {[state |-> "raised", message |-> message] : message \in Messages}

\* the dict of the except branch
error_result(item, message) ==
    IF IsStr(item)
    THEN create_result_dict(item.str, <<>>, <<>>, None, message)
    ELSE create_result_dict(item.url, item.context, item.alt_text, None, message)

\* the scraper and the worker threads of get_http_client
outside_app ==
    <<doc, config, scraper_vars, calls, first_result, images_vars, thread_vars,
      worker_vars>>

\* what _process_parallel does not touch
outside_batch == <<outside_app, http_vars, websites_vars, session_vars>>

InitBatch == ScraperIdle /\ HttpIdle

\* "if not items: return []", and "executor.submit(processor_func, item)" for
\* each item
Submit(the_items, callback) ==
    /\ items' = the_items
    /\ progress_callback' = callback
    /\ results' = <<>>
    /\ result_futures' = <<>>
    /\ yielded' = {}
    /\ IF the_items = <<>>
       THEN /\ futures' = <<>>
            /\ batch_pc' = "done"
       ELSE /\ futures' = [i \in 1..Len(the_items) |-> Running]
            /\ batch_pc' = "as_completed"

\* _process_parallel(items, processor_func, progress_callback, max_workers)
ProcessParallel ==
    /\ batch_pc = "idle"
    /\ \E the_items \in ItemLists, callback \in BOOLEAN : Submit(the_items, callback)
    /\ UNCHANGED progress_calls
    /\ UNCHANGED outside_batch

\* on a worker thread, the processor of an item returns or raises
ProcessorEnds ==
    /\ batch_pc = "as_completed"
    /\ \E i \in 1..Len(futures) :
           /\ futures[i] = Running
           /\ \E outcome \in Outcomes(items[i]) :
                  futures' = [futures EXCEPT ![i] = outcome]
    /\ UNCHANGED <<items, progress_callback, yielded, results, result_futures,
                   progress_calls, batch_pc>>
    /\ UNCHANGED outside_batch

\* the futures as_completed can yield next
Completed == {i \in 1..Len(futures) : futures[i] # Running /\ i \notin yielded}

\* one pass of "for future in as_completed(future_to_item)"
TakeResult ==
    /\ batch_pc = "as_completed"
    /\ \E i \in Completed :
           LET item == items[i]
               result_taken == IF futures[i].state = "returned"
                               THEN futures[i].result
                               ELSE error_result(item, futures[i].message)
               call == IF futures[i].state = "returned"
                       THEN [item |-> item, success |-> result_taken.success,
                             alt_text |-> result_taken.generated_alt_text]
                       ELSE [item |-> item, success |-> FALSE, alt_text |-> None]
           IN  /\ results' = Append(results, result_taken)
               /\ result_futures' = Append(result_futures, i)
               /\ yielded' = yielded \cup {i}
               /\ progress_calls' = IF progress_callback
                                    THEN Append(progress_calls, call)
                                    ELSE progress_calls
    /\ UNCHANGED <<items, progress_callback, futures, batch_pc>>
    /\ UNCHANGED outside_batch

\* as_completed is exhausted: "return results"
ProcessParallelReturn ==
    /\ batch_pc = "as_completed"
    /\ yielded = 1..Len(futures)
    /\ batch_pc' = "done"
    /\ UNCHANGED <<items, progress_callback, futures, yielded, results,
                   result_futures, progress_calls>>
    /\ UNCHANGED outside_batch

NextBatch ==
    \/ ProcessParallel
    \/ ProcessorEnds
    \/ TakeResult
    \/ ProcessParallelReturn

SpecBatch == InitBatch /\ [][NextBatch]_vars

----------------------------------------------------------------------------
(* Claims about _process_parallel.                                         *)

\* every item has one entry in results, and results has no other entry
OnePerItem ==
    /\ Len(results) = Len(items)
    /\ Len(result_futures) = Len(items)
    /\ \A i \in 1..Len(items) :
           Cardinality({k \in 1..Len(results) : result_futures[k] = i}) = 1

\* the entry of a processor that returned is what it returned
ReturnedAsIs(k) ==
    futures[result_futures[k]].state = "returned"
        => results[k] = futures[result_futures[k]].result

\* the entry of a processor that raised is about the item and has success = false
FailureOfItem(k) ==
    LET item == items[result_futures[k]]
    IN  /\ results[k].success = FALSE
        /\ results[k].generated_alt_text = None
        /\ results[k].url = IF IsStr(item) THEN item.str ELSE item.url

\* C28 as claimed: the entry of every processor that raised has an error message
C28_AsClaimed ==
    batch_pc = "done" =>
        /\ OnePerItem
        /\ \A k \in 1..Len(results) :
               /\ ReturnedAsIs(k)
               /\ futures[result_futures[k]].state = "raised" =>
                      /\ FailureOfItem(k)
                      /\ "error" \in DOMAIN results[k]
                      /\ results[k].error = futures[result_futures[k]].message

\* C28: _process_parallel returns exactly one result dict per input item in
\* every completion order of the workers: the processor's result if it
\* returned, or an error result with success = false if it raised, which has
\* the exception's message under "error" when that message is not empty and
\* no "error" key when it is empty; no item is lost or reported twice (the
\* progress callback, when given, is called once per item and does not raise).
C28_OneResultPerItem ==
    /\ Len(results) = Len(result_futures)
    /\ yielded = {result_futures[k] : k \in 1..Len(result_futures)}
    /\ Cardinality(yielded) = Len(results)
    /\ progress_callback => Len(progress_calls) = Len(results)
    /\ \A k \in 1..Len(results) :
           /\ ReturnedAsIs(k)
           /\ futures[result_futures[k]].state = "raised" =>
                  /\ FailureOfItem(k)
                  /\ IF futures[result_futures[k]].message = <<>>
                     THEN "error" \notin DOMAIN results[k]
                     ELSE /\ "error" \in DOMAIN results[k]
                          /\ results[k].error = futures[result_futures[k]].message
    /\ batch_pc = "done" => OnePerItem

\* the same item was submitted twice; the second one's processor raised with
\* a message and was taken first, the first one's processor returned a text
C28_Witness ==
    /\ batch_pc = "done"
    /\ Len(items) = 2
    /\ items[1] = items[2]
    /\ result_futures = <<2, 1>>
    /\ futures[2].state = "raised"
    /\ "error" \in DOMAIN results[1]
    /\ futures[1].state = "returned"
    /\ results[2].success

----------------------------------------------------------------------------
(* BatchProcessor.process_websites_from_file: the websites listed in a     *)
(* file are scraped one after the other, and the images of each are        *)
(* processed by _process_parallel.                                         *)

\* "https://a.ch"
S_SiteA == <<"h", "t", "t", "p", "s", ":", "/", "/", "a", ".", "c", "h">>
\* "https://b.ch/x"
S_SiteB == <<"h", "t", "t", "p", "s", ":", "/", "/", "b", ".", "c", "h", "/",
    "x">>
\* "# sites\n"
L_Comment == <<"#", " ", "s", "i", "t", "e", "s", "\n">>
\* "https://a.ch\n"
L_SiteA == <<"h", "t", "t", "p", "s", ":", "/", "/", "a", ".", "c", "h", "\n">>
\* "\n"
L_Blank == <<"\n">>
\* "  https://b.ch/x \n"
L_SiteBPadded == <<" ", " ", "h", "t", "t", "p", "s", ":", "/", "/", "b",
    ".", "c", "h", "/", "x", " ", "\n">>
\* "https://b.ch/b.jpg"
S_BJpgUrl == <<"h", "t", "t", "p", "s", ":", "/", "/", "b", ".", "c", "h",
    "/", "b", ".", "j", "p", "g">>
\* "Failed to process website: "
S_FailedToProcess == <<"F", "a", "i", "l", "e", "d", " ", "t", "o", " ", "p",
    "r", "o", "c", "e", "s", "s", " ", "w", "e", "b", "s", "i", "t", "e",
    ":", " ">>
\* "can't start new thread"
S_NoThread == <<"c", "a", "n", "'", "t", " ", "s", "t", "a", "r", "t", " ",
    "n", "e", "w", " ", "t", "h", "r", "e", "a", "d">>

\* a file that exists, with its lines
FileOf(lines) == [exists |-> TRUE, lines |-> lines]

\* file_path names no file
NoFile == [exists |-> FALSE, lines |-> <<>>]

\* the files: two websites between a comment and a blank line, the same
\* website twice (the last line without a newline), no website, and no file
Files ==
    {FileOf(<<L_Comment, L_SiteA, L_Blank, L_SiteBPadded>>),
     FileOf(<<L_SiteA, S_SiteA>>),
     FileOf(<<L_Comment, L_Blank>>),
     NoFile}

\* "[line.strip() for line in f if line.strip() and not line.startswith("#")]"
ReadUrls(lines) ==
    LET kept == SelectSeq(lines, LAMBDA line :
                    Strip(line) # <<>> /\ ~StartsWith(line, <<"#">>))
    IN  [k \in 1..Len(kept) |-> Strip(kept[k])]

\* scrape_page returned None: the page could not be fetched
NotFetched == [fetched |-> FALSE, images |-> <<>>]

\* scrape_page returned the images of the page
Fetched(page_images) == [fetched |-> TRUE, images |-> page_images]

\* what scrape_page can return for a website: None, no image, one, two
ScrapeResults ==
    {NotFetched,
     Fetched(<<>>),
     Fetched(<<ImageInfo(S_AJpg, S_Alt, S_Data)>>),
     Fetched(<<ImageInfo(S_AJpg, S_Alt, S_Data), ImageInfo(S_BJpgUrl, <<>>, <<>>)>>)}

\* website_order counts the websites from 0
TaggedFromZero(website_results, url, i) ==
    [k \in 1..Len(website_results) |->
        [source_website |-> url, website_order |-> i - 1] @@ website_results[k]]

\* "result["source_website"] = url; result["website_order"] = i" for each
\* result
Tagged(website_results, url, i) ==
    [k \in 1..Len(website_results) |->
        [source_website |-> url, website_order |-> i] @@ website_results[k]]

InitWebsites == InitHttp

\* what process_websites_from_file does not touch
outside_websites == <<outside_app, session_vars>>

\* "scraper = WebScraper()": __init__ calls get_http_client()
WebScraperInit ==
    /\ IF _http_client = 0
       THEN /\ http_clients' = http_clients + 1
            /\ _http_client' = http_clients + 1
            /\ session_closes' = Append(session_closes, 0)
            /\ atexit_callbacks' = atexit_callbacks + 1
       ELSE UNCHANGED <<http_clients, _http_client, session_closes, atexit_callbacks>>
    /\ http_calls' = Append(http_calls, [op |-> "get", ret |-> _http_client'])
    /\ UNCHANGED http_pc

\* process_websites_from_file(file_path, max_workers, progress_callback), to
\* the loop
ProcessWebsitesFromFile ==
    /\ websites_pc = "idle"
    /\ \E the_file \in Files, callback \in BOOLEAN :
           /\ file' = the_file
           /\ site_callback' = callback
           /\ urls' = IF the_file.exists THEN ReadUrls(the_file.lines) ELSE <<>>
    /\ websites_pc' = IF urls' = <<>> THEN "done" ELSE "loop"
    /\ website_i' = 0
    /\ all_results' = <<>>
    /\ website_log' = <<>>
    /\ site_calls' = <<>>
    /\ UNCHANGED <<batch_vars, http_vars>>
    /\ UNCHANGED outside_websites

\* the next pass of the loop: the callback, and scrape_and_process_webpage to
\* its return of [], to the submission of the images, or to an exception of
\* the executor (which the loop reports as an error result)
WebsiteScrape ==
    /\ websites_pc = "loop"
    /\ website_i < Len(urls)
    /\ website_i' = website_i + 1
    /\ site_calls' = IF site_callback
                     THEN Append(site_calls, [url |-> urls[website_i'],
                                              i |-> website_i',
                                              total_urls |-> Len(urls)])
                     ELSE site_calls
    /\ WebScraperInit
    /\ \E scraped \in ScrapeResults :
           LET url == urls[website_i']
               entry == [url |-> url, scraped |-> scraped, raised |-> FALSE]
           IN  \/ /\ scraped.images = <<>>
                  /\ website_log' = Append(website_log, entry)
                  /\ UNCHANGED <<all_results, websites_pc, batch_vars>>
               \/ /\ scraped.images # <<>>
                  /\ Submit(scraped.images, FALSE)
                  /\ website_log' = Append(website_log, entry)
                  /\ websites_pc' = "processing"
                  /\ UNCHANGED <<all_results, progress_calls>>
               \/ /\ scraped.images # <<>>
                  /\ website_log' = Append(website_log, [entry EXCEPT !.raised = TRUE])
                  /\ all_results' = all_results \o
                         Tagged(<<create_result_dict(url, <<>>, <<>>, None,
                                      S_FailedToProcess \o S_NoThread)>>,
                                url, website_i')
                  /\ UNCHANGED <<websites_pc, batch_vars>>
    /\ UNCHANGED <<file, site_callback, urls>>
    /\ UNCHANGED outside_websites

\* _process_parallel has returned: the results are tagged and added
WebsiteExtend ==
    /\ websites_pc = "processing"
    /\ batch_pc = "done"
    /\ all_results' = all_results \o Tagged(results, urls[website_i], website_i)
    /\ websites_pc' = "loop"
    /\ items' = <<>>
    /\ futures' = <<>>
    /\ yielded' = {}
    /\ results' = <<>>
    /\ result_futures' = <<>>
    /\ batch_pc' = "idle"
    /\ UNCHANGED <<progress_callback, progress_calls>>
    /\ UNCHANGED <<file, site_callback, urls, website_i, website_log, site_calls>>
    /\ UNCHANGED http_vars
    /\ UNCHANGED outside_websites

\* the loop is over: "return all_results"
WebsitesReturn ==
    /\ websites_pc = "loop"
    /\ website_i = Len(urls)
    /\ websites_pc' = "done"
    /\ UNCHANGED <<file, site_callback, urls, website_i, all_results, website_log,
                   site_calls>>
    /\ UNCHANGED <<batch_vars, http_vars>>
    /\ UNCHANGED outside_websites

NextWebsites ==
    \/ ProcessWebsitesFromFile
    \/ WebsiteScrape
    \/ ProcessorEnds
    \/ TakeResult
    \/ ProcessParallelReturn
    \/ WebsiteExtend
    \/ WebsitesReturn

SpecWebsites == InitWebsites /\ [][NextWebsites]_vars

----------------------------------------------------------------------------
(* Claims about process_websites_from_file.                                *)

\* the entries of all_results of the k-th website
EntriesOf(k) == SelectSeq(all_results, LAMBDA entry : entry.website_order = k)

\* the k-th website has been dealt with to its end
Finished(k) == k < website_i \/ (k = website_i /\ websites_pc \in {"loop", "done"})

\* the entries are the results of the images, one for each image
OnePerImage(entries, page_images) ==
    /\ Len(entries) = Len(page_images)
    /\ \A n \in 1..Len(page_images) :
           \E k \in 1..Len(entries) :
               /\ entries[k].url = page_images[n].url
               /\ entries[k].context = page_images[n].context
               /\ entries[k].original_alt_text = page_images[n].alt_text

\* C29: process_websites_from_file processes the listed websites strictly in
\* file order and returns the concatenation of their results, each entry
\* tagged with its source_website and the website's 1-based position as
\* website_order; a website whose page cannot be fetched or has no supported
\* image contributes zero entries (no error entry) and processing continues
\* with the next website.
C29_FileOrderTagged ==
    /\ Len(website_log) = website_i
    /\ website_i <= Len(urls)
    /\ \A k \in 1..Len(website_log) : website_log[k].url = urls[k]
    /\ batch_pc # "idle" => websites_pc = "processing"
    /\ \A p \in 1..Len(all_results) :
           /\ {"source_website", "website_order"} \subseteq DOMAIN all_results[p]
           /\ all_results[p].website_order \in 1..website_i
           /\ all_results[p].source_website = urls[all_results[p].website_order]
           /\ \A q \in 1..(p - 1) :
                  all_results[q].website_order <= all_results[p].website_order
    /\ \A k \in 1..Len(website_log) :
           /\ website_log[k].scraped.images = <<>> => EntriesOf(k) = <<>>
           /\ ( Finished(k) /\ ~website_log[k].raised )
                  => OnePerImage(EntriesOf(k), website_log[k].scraped.images)
           /\ website_log[k].raised =>
                  /\ Len(EntriesOf(k)) = 1
                  /\ EntriesOf(k)[1].url = urls[k]
                  /\ ~EntriesOf(k)[1].success
                  /\ "error" \in DOMAIN EntriesOf(k)[1]
           /\ ~Finished(k) => EntriesOf(k) = <<>>
    /\ websites_pc = "done" =>
           /\ website_i = Len(urls)
           /\ urls = <<>> => all_results = <<>>

\* the first website of the file could not be fetched; the second one, on a
\* padded line after a blank line, had two images, and the list returned
\* has their two results tagged with 2
C29_Witness ==
    /\ websites_pc = "done"
    /\ Len(urls) = 2
    /\ urls[2] = S_SiteB
    /\ ~website_log[1].scraped.fetched
    /\ Len(all_results) = 2
    /\ all_results[1].website_order = 2
    /\ all_results[2].source_website = S_SiteB
    /\ all_results[1].url # all_results[2].url

----------------------------------------------------------------------------
(* main.py: process_url of the Streamlit app, run by the script each time  *)
(* the button is pressed. The session state outlives the runs.             *)

\* the largest number of runs of process_url
MaxRuns == 2

\* the URLs entered: two pages and a text without a scheme
AppUrls == {S_SiteA, S_SiteB, S_PagePath}

\* what generate_alt_text returns for an image in the app: None, an empty
\* text or a text
AppAltTexts == AltTexts \cup {<<>>}

\* the previous results stay until new ones are saved
images_kept == session_images

\* "st.session_state.images = []"
images_cleared == <<>>

InitApp == InitHttp

\* what process_url does not touch
outside_session == <<outside_app, batch_vars, websites_vars>>

\* process_url(url): the previous results are cleared and the scraper is made
ProcessUrl ==
    /\ app_pc = "idle"
    /\ app_runs < MaxRuns
    /\ app_runs' = app_runs + 1
    /\ \E url \in AppUrls : app_url' = url
    /\ session_images' = images_cleared
    /\ processed_url' = <<>>
    /\ WebScraperInit
    /\ app_images' = <<>>
    /\ app_pending' = {}
    /\ app_scraped' = [url |-> <<>>, images |-> <<>>]
    /\ UNCHANGED app_outcome
    /\ app_pc' = "validate"
    /\ UNCHANGED outside_session

\* "if not scraper.validate_url(url): return": a URL without scheme or host
\* is not valid, another one is valid when the HEAD request returns HTML
ValidateUrl ==
    /\ app_pc = "validate"
    /\ \E valid \in (IF HasScheme(app_url) THEN BOOLEAN ELSE {FALSE}) :
           IF valid
           THEN /\ app_pc' = "scrape"
                /\ UNCHANGED app_outcome
           ELSE /\ app_pc' = "idle"
                /\ app_outcome' = Append(app_outcome, "failed")
    /\ UNCHANGED <<session_images, processed_url, app_url, app_images, app_pending,
                   app_scraped, app_runs>>
    /\ UNCHANGED http_vars
    /\ UNCHANGED outside_session

\* "images = scraper.scrape_page(url)", "if not images: return", and the
\* submission of generate_alt_text for each image; an exception there (the
\* executor cannot start a thread) ends in the except branch
ScrapePage ==
    /\ app_pc = "scrape"
    /\ \E scraped \in ScrapeResults :
           /\ app_scraped' = [url |-> app_url, images |-> scraped.images]
           /\ \/ /\ scraped.images = <<>>
                 /\ app_pc' = "idle"
                 /\ app_outcome' = Append(app_outcome, "failed")
                 /\ UNCHANGED <<app_images, app_pending>>
              \/ /\ scraped.images # <<>>
                 /\ app_images' = scraped.images
                 /\ app_pending' = 1..Len(scraped.images)
                 /\ app_pc' = "generate"
                 /\ UNCHANGED app_outcome
              \/ /\ scraped.images # <<>>
                 /\ app_images' = scraped.images
                 /\ app_pc' = "idle"
                 /\ app_outcome' = Append(app_outcome, "failed")
                 /\ UNCHANGED app_pending
    /\ UNCHANGED <<session_images, processed_url, app_url, app_runs>>
    /\ UNCHANGED http_vars
    /\ UNCHANGED outside_session

\* one pass of "for future in as_completed(future_to_image)": the future of
\* an image returned a text (kept when it is not empty) or raised (logged)
AltTextDone ==
    /\ app_pc = "generate"
    /\ \E i \in app_pending :
           /\ app_pending' = app_pending \ {i}
           /\ \/ \E alt_text \in AppAltTexts :
                     app_images' =
                         IF Truthy(alt_text)
                         THEN [app_images EXCEPT ![i].suggested_alt_text = alt_text]
                         ELSE app_images
              \/ app_images' = app_images
    /\ UNCHANGED <<session_images, processed_url, app_url, app_scraped, app_outcome,
                   app_runs, app_pc>>
    /\ UNCHANGED http_vars
    /\ UNCHANGED outside_session

\* "st.session_state.images = images; st.session_state.processed_url = url"
SaveResults ==
    /\ app_pc = "generate"
    /\ app_pending = {}
    /\ session_images' = app_images
    /\ processed_url' = app_url
    /\ app_outcome' = Append(app_outcome, "saved")
    /\ app_pc' = "idle"
    /\ UNCHANGED <<app_url, app_images, app_pending, app_scraped, app_runs>>
    /\ UNCHANGED http_vars
    /\ UNCHANGED outside_session

NextApp ==
    \/ ProcessUrl
    \/ ValidateUrl
    \/ ScrapePage
    \/ AltTextDone
    \/ SaveResults

SpecApp == InitApp /\ [][NextApp]_vars

----------------------------------------------------------------------------
(* Claims about the session state of the app.                              *)

\* how the last run of process_url ended
LastOutcome == IF app_outcome = <<>> THEN "none" ELSE app_outcome[Len(app_outcome)]

\* the list holds the images scrape_page returned, in its order, with the
\* texts generated for them
ImagesOfScrape(list, scraped_images) ==
    /\ Len(list) = Len(scraped_images)
    /\ \A k \in 1..Len(list) :
           /\ list[k].url = scraped_images[k].url
           /\ list[k].alt_text = scraped_images[k].alt_text
           /\ list[k].context = scraped_images[k].context

====
